---------------------------- MODULE Spec2Model ----------------------------
(***************************************************************************)
(* Model of the Bonfire Hub harvest pipeline (src/src/scraper.py):         *)
(* BonfireScraper.run and everything it calls -- start_browser, login,     *)
(* fetch_agencies, save_agencies, scrape_open_opportunities,               *)
(* scrape_past_opportunities, scrape_all_opportunities, _save_progress and *)
(* close_browser.  One action per step of the code between two awaits or   *)
(* two file operations; the remote portal and the file system are the      *)
(* environment and answer nondeterministically.                            *)
(***************************************************************************)
EXTENDS Naturals, Sequences, FiniteSets, TLC

VARIABLES
    AGENCIES_PER_LETTER, \* settings.py:30, the per-letter quota of this run
    TARGET_LETTERS,      \* settings.py:33, the ordered target letters of this run
    faults,              \* transient faults the remote has produced so far
    pc,                  \* position of the single thread of control
    browser,             \* self.browser: "none", "created", "running", "closed"
    tab,                 \* self.tab: state, current url, login form state
    exc,                 \* the exception an except block is handling
    pending,             \* what run() does once its finally block has run
    selector,            \* login(): index into password_selectors
    login_ret,           \* value returned by login(): "none", "true", "false"
    agencies_by_letter,  \* fetch_agencies(): letter -> bucket
    page_num,            \* fetch_agencies(): page cursor
    reached_end,         \* fetch_agencies(): loop flag
    attempt,             \* the running retry loop's counter
    fetched,             \* what the last request of the running function was answered with
    agencies,            \* self.agencies
    idx,                 \* scrape_all_opportunities(): 1-based loop index
    open_opps,           \* scrape_all_opportunities(): open accumulator
    past_opps,           \* scrape_all_opportunities(): past accumulator
    result,              \* scrape_*_opportunities(): the set being built
    agenciesFile,        \* output/raw/agencies.json
    openFile,            \* output/raw/open_opportunities_raw.json
    pastFile,            \* output/raw/past_opportunities_raw.json
    closeCalls,          \* number of times close_browser() was entered
    outcome,             \* how run() ended: "running", "returned", "raised"
    caller_ret,          \* what the caller of run() ended with: "none", "true",
                         \* "false" (run_scraper), "printed", "raised" (scraper.main)
    call,                \* a function called on its own: its name and arguments
    ret,                 \* and what it returned
    locals,              \* and its local variables while it runs
    collection           \* the documents of the MongoDB collection

outerVars == <<caller_ret, call, ret, locals, collection>>
cfgVars  == <<AGENCIES_PER_LETTER, TARGET_LETTERS, outerVars>>
sessVars == <<browser, tab>>
loginVars == <<selector, login_ret>>
discVars == <<agencies_by_letter, page_num, reached_end>>
harvVars == <<idx, open_opps, past_opps, result>>
diskVars == <<agenciesFile, openFile, pastFile>>
vars == <<AGENCIES_PER_LETTER, TARGET_LETTERS, faults, pc, browser,
          tab, exc, pending, selector, login_ret, agencies_by_letter,
          page_num, reached_end, attempt, fetched, agencies, idx,
          open_opps, past_opps, result, agenciesFile, openFile, pastFile, closeCalls,
          outcome, outerVars>>

---------------------------------------------------------------------------
(* Bounds of the model and constants of the program.                       *)

MaxQuota   == 2   \* quotas 1..MaxQuota are tried
MaxPages   == 2   \* the remote listing has at most this many non-empty pages
MaxPageLen == 2   \* a listing page holds at most this many entries
MaxFaults  == 3   \* transient faults (raised errors, unusable feed payloads) per run
MaxDocs    == 2   \* a list passed to insert_opportunities holds at most this many documents
MaxCalls   == 2   \* insert_opportunities is called at most this many times

MaxHours   == 80  \* deadlines and current times, in hours since some origin

MaxItems   == 3   \* a feed payload holds at most this many entries
MaxCode    == 4   \* numeric status codes 0..MaxCode

MAX_RETRIES == 3

\* main.py lines 207-209 with do_parse = not args.scrape_only.
do_parse_IgnoresUploadOnly(args) == ~args.scrape_only

\* main.py lines 207-209: the phases the flags select.
do_scrape(args) == ~(args.parse_only \/ args.upload_only)
do_parse(args)  == ~(args.scrape_only \/ args.upload_only)
do_upload(args) == ~(args.scrape_only \/ args.parse_only)

\* Letter lists a run may be configured with (settings.py:33 is one such list).
LetterLists == { <<"G", "D">>, <<"G">> }

\* What the browser client raises (a subclass of Exception), and what the
\* code itself raises on a payload of the wrong type.
ExcKinds == {"ClientError"}
CodeErrors == {"TypeError", "AttributeError"}

NoExc == [origin |-> "", kind |-> ""]
Raised(o, k) == [origin |-> o, kind |-> k]

NoPending == [kind |-> "none", exc |-> NoExc]

---------------------------------------------------------------------------
(* The tab: what it shows.                                                 *)

NoBase == <<>>
Url(k, p, b) == [kind |-> k, page |-> p, base |-> b]
BlankUrl == Url("blank", 0, NoBase)
LOGIN_URL == Url("login", 0, NoBase)

NoTab == [state |-> "none", url |-> BlankUrl, form |-> "none"]

\* tab.go_to(url): the tab is sent to the page (url is the address last
\* requested, also when the call then raises); the form it showed is gone.
GoTo(t, u) == [t EXCEPT !.url = u, !.form = IF u.kind = "login" THEN "login_page" ELSE "none"]

---------------------------------------------------------------------------
(* Page text and the embedded payload.                                     *)

\* A parsed JSON value, as far as the code looks at it: its type, its items
\* (the elements of a list, the keys of a mapping, iterated by "for org in
\* json_data") and whether a mapping carries a non-empty "message".
\* A mapping also has its "payload": missing, null, or a mapping with its
\* "projects" (a keyed mapping, a list or something else) and their values.
Payload(k, shape, items) == [kind |-> k, projects |-> [shape |-> shape, items |-> items]]
NoPayload == Payload("missing", "missing", <<>>)
Json(k, items, msg) == [kind |-> k, items |-> items, message |-> msg, payload |-> NoPayload]
NotARecord == [isRecord |-> FALSE, OrganizationName |-> <<>>, Domain |-> ""]
FeedJson(payload) == [kind |-> "dict", items |-> <<NotARecord>>, message |-> FALSE, payload |-> payload]
None == Json("null", <<>>, FALSE)

\* Page text: whether it holds a <pre>...</pre> wrapper, whether the wrapped
\* text is well-formed JSON, and the value it denotes.
Page(pre, valid, json) == [pre |-> pre, valid |-> valid, json |-> json]

\* extract_json_from_page: the parsed value, None without wrapper or on a
\* JSONDecodeError.
extract_json_from_page(page_content) ==
    IF page_content.pre
    THEN IF page_content.valid THEN page_content.json ELSE None
    ELSE None

\* Python truthiness of a parsed value ("not json_data").
Truthy(json) ==
    CASE json.kind = "null"   -> FALSE
      [] json.kind = "list"   -> json.items # <<>>
      [] json.kind = "dict"   -> json.items # <<>>
      [] OTHER                -> TRUE

---------------------------------------------------------------------------
(* The remote listing.                                                     *)

\* A listing entry.  A name is a sequence of characters; a missing key reads
\* as the default "" (the empty sequence, the empty domain).
Org(name, domain) == [isRecord |-> TRUE, OrganizationName |-> name, Domain |-> domain]

Entries ==
    { Org(<<"D", "a">>, "da"),     \* "Da..."
      Org(<<"d", "x">>, "dx"),     \* lower-case first letter
      Org(<<"g", "a">>, "ga"),
      Org(<<"Z", "e">>, "ze"),     \* not a target letter
      Org(<<>>, "nn"),             \* no name
      Org(<<"G", "b">>, ""),       \* no domain
      NotARecord }                 \* a string or number where a record is expected

RECURSIVE SeqsUpTo(_, _)
SeqsUpTo(S, n) ==
    IF n = 0 THEN { <<>> }
    ELSE LET shorter == SeqsUpTo(S, n - 1)
         IN  shorter \cup { Append(s, e) : s \in { t \in shorter : Len(t) = n - 1 }, e \in S }

NonEmptyLists == { Json("list", s, FALSE) : s \in SeqsUpTo(Entries, MaxPageLen) \ { <<>> } }

ErrorMapping   == Json("dict", <<NotARecord>>, TRUE)    \* {"message": "..."}
OtherMapping   == Json("dict", <<NotARecord>>, FALSE)   \* a mapping without message
EmptyList      == Json("list", <<>>, FALSE)
Number         == Json("number", <<>>, FALSE)           \* a truthy scalar

\* The remote as call gives it for an outage: the pages before call.from are
\* answered, and from page call.from on every request raises.
Outage(p) == call.fn = "outage" /\ p >= call.from

\* What a request for page p of the listing can return as page text.  The
\* listing has finitely many pages with entries, at most MaxPages, and empty
\* pages after them: page p holds entries or, when the listing has ended
\* before p, is empty.  Any request can also be answered by an error mapping,
\* a scalar, text without wrapper or malformed text.
\* When fetch_agencies() runs against a listing that is given (call.listing),
\* page p is what that listing holds, and empty past its last page.
ListingContents(p) ==
    IF call.fn = "fetch_agencies"
    THEN { Page(TRUE, TRUE, IF p <= Len(call.listing)
                            THEN Json("list", call.listing[p], FALSE)
                            ELSE EmptyList) }
    ELSE IF Outage(p) THEN {}
    ELSE
    (IF p <= MaxPages
     THEN { Page(TRUE, TRUE, j) : j \in NonEmptyLists \cup {OtherMapping} }
     ELSE {})
    \cup { Page(TRUE, TRUE, EmptyList),
           Page(TRUE, TRUE, ErrorMapping),
           Page(TRUE, TRUE, Number),
           Page(FALSE, FALSE, None),
           Page(TRUE, FALSE, None) }

---------------------------------------------------------------------------
(* fetch_agencies: the pure part.                                          *)

Upper(c) ==
    CASE c = "d" -> "D"
      [] c = "g" -> "G"
      [] c = "z" -> "Z"
      [] OTHER   -> c

Range(s) == { s[i] : i \in 1..Len(s) }

Take(s, n) == IF Len(s) <= n THEN s ELSE SubSeq(s, 1, n)

Agency(name, domain) == [agency_name |-> name, agency_url |-> <<"https://", domain>>]

\* ProcessOrg without the quota test of line 320.
ProcessOrg_NoQuotaCheck(buckets, org) ==
    IF ~org.isRecord THEN buckets
    ELSE LET name   == org.OrganizationName
             domain == org.Domain
         IN  IF name = <<>> \/ domain = "" THEN buckets
             ELSE LET first_letter == Upper(name[1])
                  IN  IF first_letter \in Range(TARGET_LETTERS)
                      THEN [buckets EXCEPT ![first_letter] = Append(@, Agency(name, domain))]
                      ELSE buckets

\* A quota test on all buckets at once: nothing is added once any bucket is full.
ProcessOrg_AnyBucketFull(buckets, org) ==
    IF ~org.isRecord THEN buckets
    ELSE LET name   == org.OrganizationName
             domain == org.Domain
         IN  IF name = <<>> \/ domain = "" THEN buckets
             ELSE LET first_letter == Upper(name[1])
                  IN  IF first_letter \in Range(TARGET_LETTERS)
                         /\ \A l \in Range(TARGET_LETTERS) :
                               Len(buckets[l]) < AGENCIES_PER_LETTER
                      THEN [buckets EXCEPT ![first_letter] = Append(@, Agency(name, domain))]
                      ELSE buckets

\* One iteration of "for org in json_data" (lines 309-329): the buckets after it.
ProcessOrg(buckets, org) ==
    IF ~org.isRecord THEN buckets                      \* org.get raises, caught at 328
    ELSE LET name   == org.OrganizationName
             domain == org.Domain
         IN  IF name = <<>> \/ domain = "" THEN buckets
             ELSE LET first_letter == Upper(name[1])
                  IN  IF first_letter \in Range(TARGET_LETTERS)
                         /\ Len(buckets[first_letter]) < AGENCIES_PER_LETTER
                      THEN [buckets EXCEPT ![first_letter] = Append(@, Agency(name, domain))]
                      ELSE buckets

\* A page whose processing ends at the first entry that cannot be used.
RECURSIVE ProcessPage_StopsAtMalformed(_, _)
ProcessPage_StopsAtMalformed(buckets, items) ==
    IF items = <<>> THEN buckets
    ELSE IF ~Head(items).isRecord \/ Head(items).OrganizationName = <<>>
            \/ Head(items).Domain = ""
    THEN buckets
    ELSE ProcessPage_StopsAtMalformed(ProcessOrg(buckets, Head(items)), Tail(items))

RECURSIVE ProcessPage(_, _)
ProcessPage(buckets, items) ==
    IF items = <<>> THEN buckets
    ELSE ProcessPage(ProcessOrg(buckets, Head(items)), Tail(items))

\* all(len(agencies_by_letter[l]) >= AGENCIES_PER_LETTER for l in TARGET_LETTERS)
all_full(buckets) ==
    \A i \in 1..Len(TARGET_LETTERS) : Len(buckets[TARGET_LETTERS[i]]) >= AGENCIES_PER_LETTER

\* The buckets joined in alphabetical order of their letters.
Combine_Alphabetical(buckets, letters) ==
    (IF "D" \in DOMAIN buckets THEN Take(buckets["D"], AGENCIES_PER_LETTER) ELSE <<>>)
       \o (IF "G" \in DOMAIN buckets THEN Take(buckets["G"], AGENCIES_PER_LETTER) ELSE <<>>)

\* Lines 340-342: the buckets concatenated in the order of TARGET_LETTERS.
RECURSIVE Combine(_, _)
Combine(buckets, letters) ==
    IF letters = <<>> THEN <<>>
    ELSE Take(buckets[Head(letters)], AGENCIES_PER_LETTER) \o Combine(buckets, Tail(letters))

---------------------------------------------------------------------------
(* Results and files.                                                      *)

\* The set built by scrape_open_opportunities / scrape_past_opportunities
\* (lines 364-368, 432-436): portal url, agency name, opportunities.
AgencySet(feed, agency, opps) ==
    [portal_url    |-> [base |-> agency.agency_url, tab |-> feed],
     agency_name   |-> agency.agency_name,
     opportunities |-> opps]

NoResult == [portal_url    |-> [base |-> NoBase, tab |-> ""],
             agency_name   |-> <<>>,
             opportunities |-> <<>>]

\* A file: absent, complete (written and closed) or partial (opened for
\* writing -- which truncates it -- and not yet completely written); who
\* wrote its content, this run or an earlier one.
File(st, data, by) == [state |-> st, data |-> data, by |-> by]
Absent == File("absent", <<>>, "nobody")

\* What an earlier run may have left in the output directory.
OldAgency == Agency(<<"L", "o">>, "lo")
OldDisk == [agencies |-> File("complete", <<OldAgency>>, "earlier"),
            open     |-> File("complete", <<AgencySet("openOpportunities", OldAgency, <<>>)>>, "earlier"),
            past     |-> File("complete", <<AgencySet("pastOpportunities", OldAgency, <<>>)>>, "earlier")]
FreshDisk == [agencies |-> Absent, open |-> Absent, past |-> Absent]

---------------------------------------------------------------------------
(* The state after BonfireScraper(email, password) (lines 150-155), for    *)
(* every configuration, remote listing and output directory of the bounds. *)

\* No function is being called on its own.
NoCall == [fn |-> "none"]
NoRet == [done |-> FALSE, value |-> 0]
Returns(v) == [done |-> TRUE, value |-> v]
NoLocals == [at |-> "none"]

\* The state after BonfireScraper(email, password), before run() is called.
Constructed ==
    /\ AGENCIES_PER_LETTER \in 1..MaxQuota
    /\ TARGET_LETTERS \in LetterLists
    /\ \E disk \in {FreshDisk, OldDisk} :
          /\ agenciesFile = disk.agencies
          /\ openFile = disk.open
          /\ pastFile = disk.past
    /\ faults = 0
    /\ pc = "run"
    /\ browser = "none"
    /\ tab = NoTab
    /\ exc = NoExc
    /\ pending = NoPending
    /\ selector = 0
    /\ login_ret = "none"
    /\ agencies_by_letter = [l \in Range(TARGET_LETTERS) |-> <<>>]
    /\ page_num = 0
    /\ reached_end = FALSE
    /\ attempt = 0
    /\ fetched = "nothing"
    /\ agencies = <<>>
    /\ idx = 0
    /\ open_opps = <<>>
    /\ past_opps = <<>>
    /\ result = NoResult
    /\ closeCalls = 0
    /\ outcome = "running"
    /\ caller_ret = "none"

Init ==
    /\ Constructed
    /\ call = NoCall
    /\ ret = NoRet
    /\ locals = NoLocals
    /\ collection = {}

---------------------------------------------------------------------------
(* run(): entering the try block, start_browser (lines 549-550, 157-171).  *)

\* An exception that leaves run() without its finally block.
Propagate_SkipsFinally(e) ==
    /\ pc' = "done"
    /\ exc' = NoExc
    /\ pending' = [kind |-> "raise", exc |-> e]

\* An exception reaches run()'s try block: run() has no except clause, so
\* the finally block runs and the exception is raised again after it.
Propagate(e) ==
    /\ pc' = "finally"
    /\ exc' = NoExc
    /\ pending' = [kind |-> "raise", exc |-> e]

StartBrowser ==
    /\ pc = "run"
    /\ \/ \E e \in ExcKinds :                  \* Chrome(options) raises
             /\ Propagate(Raised("start_browser", e))
             /\ UNCHANGED sessVars
       \/ \E e \in ExcKinds :                  \* browser.start() raises
             /\ Propagate(Raised("start_browser", e))
             /\ browser' = "created"
             /\ UNCHANGED tab
       \/ /\ browser' = "running"
          /\ tab' = [NoTab EXCEPT !.state = "open"]
          /\ pc' = "login"
          /\ UNCHANGED <<exc, pending>>
    /\ UNCHANGED <<cfgVars, faults, loginVars, discVars, attempt, fetched, agencies,
                   harvVars, diskVars, closeCalls, outcome>>

---------------------------------------------------------------------------
(* login() (lines 186-256).                                                *)

password_selectors == <<"input#password", "input[type='password']", "//input[@type='password']">>

\* "except (TypeError, AttributeError)" in place of "except Exception".
LoginCatches_CodeErrorsOnly(e) == e \in CodeErrors

\* "except Exception" (line 254).
LoginCatches(e) == e \in ExcKinds \cup CodeErrors

\* An interaction of login() raises e.
LoginRaises(e) ==
    IF LoginCatches(e)
    THEN /\ pc' = "login_except"
         /\ exc' = Raised("login", e)
         /\ UNCHANGED pending
    ELSE Propagate(Raised("login", e))

LoginReturn(value) ==
    /\ pc' = "login_return"
    /\ login_ret' = value
    /\ UNCHANGED <<exc, pending>>

LoginStep(next) ==
    /\ pc' = next
    /\ UNCHANGED <<exc, pending, login_ret>>

\* What the login page can show: the email field, the "//button[@type='submit']"
\* of the email stage and of the password stage, and the password field
\* under any of its selectors.
PageElements ==
    {"input#input-email", "continue button", "submit button"} \cup Range(password_selectors)

\* tab.query(..., raise_exc=False): the element or None.  A call of login()
\* on a given page finds what the page has; otherwise either may come back.
Finds(element) ==
    IF call.fn = "login" THEN { element \in call.page } ELSE BOOLEAN

loginFrame == <<cfgVars, faults, browser, discVars, attempt, fetched, agencies,
                harvVars, diskVars, closeCalls, outcome>>

\* Line 195: await self.tab.go_to(LOGIN_URL)
LoginGoTo ==
    /\ pc = "login"
    /\ \/ /\ tab' = GoTo(tab, LOGIN_URL)
          /\ LoginStep("login_query_email")
       \/ \E e \in ExcKinds : LoginRaises(e) /\ UNCHANGED <<tab, login_ret>>
    /\ UNCHANGED <<selector, loginFrame>>

\* Lines 198-205: query the email field; return False when it is not found.
LoginQueryEmail ==
    /\ pc = "login_query_email"
    /\ \/ \E found \in Finds("input#input-email") :
             IF found THEN LoginStep("login_type_email") ELSE LoginReturn("false")
       \/ \E e \in ExcKinds : LoginRaises(e) /\ UNCHANGED login_ret
    /\ UNCHANGED <<tab, selector, loginFrame>>

\* Line 207: await email_field.type_text(self.email)
LoginTypeEmail ==
    /\ pc = "login_type_email"
    /\ \/ /\ tab' = [tab EXCEPT !.form = "email_typed"]
          /\ LoginStep("login_query_continue")
       \/ \E e \in ExcKinds : LoginRaises(e) /\ UNCHANGED <<tab, login_ret>>
    /\ UNCHANGED <<selector, loginFrame>>

\* A missing continue button answered by starting over at the email field.
LoginQueryContinue_Retries ==
    /\ pc = "login_query_continue"
    /\ \/ \E found \in Finds("continue button") :
             IF found THEN LoginStep("login_click_continue")
             ELSE LoginStep("login_query_email")
       \/ \E e \in ExcKinds : LoginRaises(e) /\ UNCHANGED login_ret
    /\ UNCHANGED <<tab, selector, loginFrame>>

\* Lines 210-217: query the continue button; return False when not found.
LoginQueryContinue ==
    /\ pc = "login_query_continue"
    /\ \/ \E found \in Finds("continue button") :
             IF found THEN LoginStep("login_click_continue")
             ELSE LoginReturn("false")
       \/ \E e \in ExcKinds : LoginRaises(e) /\ UNCHANGED login_ret
    /\ UNCHANGED <<tab, selector, loginFrame>>

\* Lines 219-229: click continue, wait, start the selector loop.
LoginClickContinue ==
    /\ pc = "login_click_continue"
    /\ \/ /\ tab' = [tab EXCEPT !.form = "email_submitted"]
          /\ selector' = 1
          /\ LoginStep("login_query_password")
       \/ \E e \in ExcKinds : LoginRaises(e) /\ UNCHANGED <<tab, selector, login_ret>>
    /\ UNCHANGED loginFrame

\* A selector loop without the break of line 233: the last match wins.
LoginQueryPassword_QueriesAll ==
    /\ pc = "login_query_password"
    /\ \/ \E found \in Finds(password_selectors[selector]) :
             IF selector < Len(password_selectors)
             THEN /\ selector' = selector + 1
                  /\ LoginStep("login_query_password")
             ELSE /\ IF found THEN LoginStep("login_type_password")
                     ELSE LoginReturn("false")
                  /\ UNCHANGED selector
       \/ \E e \in ExcKinds : LoginRaises(e) /\ UNCHANGED <<selector, login_ret>>
    /\ UNCHANGED <<tab, loginFrame>>

\* Lines 230-237: one iteration of the selector loop; after the last
\* selector without a match, return False.
LoginQueryPassword ==
    /\ pc = "login_query_password"
    /\ \/ \E found \in Finds(password_selectors[selector]) :
             IF found
             THEN LoginStep("login_type_password") /\ UNCHANGED selector
             ELSE IF selector < Len(password_selectors)
             THEN /\ selector' = selector + 1
                  /\ LoginStep("login_query_password")
             ELSE /\ LoginReturn("false")
                  /\ UNCHANGED selector
       \/ \E e \in ExcKinds : LoginRaises(e) /\ UNCHANGED <<selector, login_ret>>
    /\ UNCHANGED <<tab, loginFrame>>

\* Line 239: await pswd_field.type_text(self.password)
LoginTypePassword ==
    /\ pc = "login_type_password"
    /\ \/ /\ tab' = [tab EXCEPT !.form = "password_typed"]
          /\ LoginStep("login_query_submit")
       \/ \E e \in ExcKinds : LoginRaises(e) /\ UNCHANGED <<tab, login_ret>>
    /\ UNCHANGED <<selector, loginFrame>>

\* Lines 242-247, 251-252: query the submit button; when it is not found the
\* click is skipped and login() returns True.
LoginQuerySubmit ==
    /\ pc = "login_query_submit"
    /\ \/ \E found \in Finds("submit button") :
             IF found THEN LoginStep("login_click_submit") ELSE LoginReturn("true")
       \/ \E e \in ExcKinds : LoginRaises(e) /\ UNCHANGED login_ret
    /\ UNCHANGED <<tab, selector, loginFrame>>

\* Lines 248-252: click submit, wait, return True.
LoginClickSubmit ==
    /\ pc = "login_click_submit"
    /\ \/ /\ tab' = [tab EXCEPT !.form = "password_submitted"]
          /\ LoginReturn("true")
       \/ \E e \in ExcKinds : LoginRaises(e) /\ UNCHANGED <<tab, login_ret>>
    /\ UNCHANGED <<selector, loginFrame>>

\* Lines 254-256: the except block logs and returns False.
LoginExcept ==
    /\ pc = "login_except"
    /\ pc' = "login_return"
    /\ login_ret' = "false"
    /\ exc' = NoExc
    /\ UNCHANGED <<pending, tab, selector, loginFrame>>

\* run() going on whatever login() returned.
RunCheckLogin_IgnoresResult ==
    /\ pc = "login_return"
    /\ pc' = "fetch_agencies"
    /\ selector' = 0
    /\ UNCHANGED <<cfgVars, faults, sessVars, exc, pending, login_ret, discVars,
                   attempt, fetched, agencies, harvVars, diskVars, closeCalls,
                   outcome>>

\* Lines 552-553: if not await self.login(): raise Exception(...)
RunCheckLogin ==
    /\ pc = "login_return"
    /\ IF login_ret = "true"
       THEN pc' = "fetch_agencies" /\ UNCHANGED <<exc, pending>>
       ELSE Propagate(Raised("run", "auth_failed"))
    /\ selector' = 0
    /\ UNCHANGED <<cfgVars, faults, sessVars, login_ret, discVars, attempt, fetched,
                   agencies, harvVars, diskVars, closeCalls, outcome>>

---------------------------------------------------------------------------
(* fetch_agencies() (lines 258-349).                                       *)

\* The try block of an attempt catches "Exception" (line 333): what the
\* client raises and what the code itself raises.
DiscCatches(e) == e \in ExcKinds \cup CodeErrors

\* EndOfData without the error-mapping test of lines 304-306.
EndOfData_NoErrorCheck(json_data) == ~Truthy(json_data)

\* Lines 298-306: the parsed page says the listing has ended.
EndOfData(json_data) ==
    \/ ~Truthy(json_data)
    \/ json_data.kind = "dict" /\ json_data.message

ListingUrl(p) == Url("listing", p, NoBase)

EmptyBuckets == [l \in Range(TARGET_LETTERS) |-> <<>>]

runFrame == <<cfgVars, browser, loginVars, closeCalls, outcome>>

\* Lines 268-275.
FetchAgenciesBegin ==
    /\ pc = "fetch_agencies"
    /\ agencies_by_letter' = EmptyBuckets
    /\ page_num' = 1
    /\ reached_end' = FALSE
    /\ pc' = "disc_loop"
    /\ UNCHANGED <<runFrame, faults, tab, exc, pending, attempt, fetched, agencies,
                   harvVars, diskVars>>

\* The loop test without the all_full check of lines 281-287.
DiscLoopHead_NoFullCheck ==
    /\ pc = "disc_loop"
    /\ IF reached_end
       THEN pc' = "disc_combine" /\ UNCHANGED attempt
       ELSE pc' = "disc_attempt" /\ attempt' = 0
    /\ UNCHANGED <<runFrame, faults, tab, exc, pending, discVars, fetched, agencies,
                   harvVars, diskVars>>

\* Lines 277-291: the loop test, the all_full check, entering the retry loop.
DiscLoopHead ==
    /\ pc = "disc_loop"
    /\ IF reached_end \/ all_full(agencies_by_letter)
       THEN pc' = "disc_combine" /\ UNCHANGED attempt
       ELSE pc' = "disc_attempt" /\ attempt' = 0
    /\ UNCHANGED <<runFrame, faults, tab, exc, pending, discVars, fetched, agencies,
                   harvVars, diskVars>>

DiscRaises(e) ==
    /\ IF Outage(page_num)
       THEN UNCHANGED faults                    \* an outage raises without end
       ELSE faults < MaxFaults /\ faults' = faults + 1
    /\ IF DiscCatches(e)
       THEN pc' = "disc_except" /\ exc' = Raised("fetch_agencies", e) /\ UNCHANGED pending
       ELSE Propagate(Raised("fetch_agencies", e))
    /\ UNCHANGED discVars

\* What a request was answered with, as the remote sent it.
ResponseClass(page_content) ==
    IF ~page_content.pre \/ ~page_content.valid THEN "no_payload"
    ELSE LET j == page_content.json
         IN  CASE j.kind = "null"   -> "no_payload"
               [] j.kind = "list"   -> IF j.items = <<>> THEN "empty_list" ELSE "entries"
               [] j.kind = "dict"   -> IF j.message THEN "error_mapping" ELSE "mapping"
               [] OTHER             -> "scalar"

\* Lines 292-331: one attempt at the page.
DiscAttempt ==
    /\ pc = "disc_attempt"
    /\ tab' = GoTo(tab, ListingUrl(page_num))
    /\ \/ \E e \in ExcKinds :                        \* go_to or page_source raises
             /\ fetched' = "raised"
             /\ DiscRaises(e)
       \/ \E page_content \in ListingContents(page_num) :
             LET json_data == extract_json_from_page(page_content)
             IN  /\ fetched' = ResponseClass(page_content)
                 /\ IF EndOfData(json_data)
                    THEN /\ reached_end' = TRUE
                         /\ pc' = "disc_next"
                         /\ UNCHANGED <<agencies_by_letter, page_num, faults, exc, pending>>
                    ELSE IF json_data.kind \notin {"list", "dict"}
                    THEN DiscRaises("TypeError")          \* "for org in" a number
                    ELSE /\ agencies_by_letter' = ProcessPage(agencies_by_letter, json_data.items)
                         /\ pc' = "disc_next"
                         /\ UNCHANGED <<page_num, reached_end, faults, exc, pending>>
    /\ UNCHANGED <<runFrame, attempt, agencies, harvVars, diskVars>>

\* An except block that starts the listing over from its first page.
DiscExcept_Restarts ==
    /\ pc = "disc_except"
    /\ pc' = "disc_delay"
    /\ exc' = NoExc
    /\ page_num' = 1
    /\ UNCHANGED <<runFrame, faults, tab, pending, agencies_by_letter, reached_end,
                   attempt, fetched, agencies, harvVars, diskVars>>

\* Lines 333-334: the except block logs the failed attempt.
DiscExcept ==
    /\ pc = "disc_except"
    /\ pc' = "disc_delay"
    /\ exc' = NoExc
    /\ UNCHANGED <<runFrame, faults, tab, pending, discVars, attempt, fetched, agencies,
                   harvVars, diskVars>>

\* A retry loop that ends discovery once its attempts are used up.
DiscDelay_GivesUp ==
    /\ pc = "disc_delay"
    /\ attempt' = attempt + 1
    /\ pc' = IF attempt + 1 < MAX_RETRIES THEN "disc_attempt" ELSE "disc_next"
    /\ reached_end' = (attempt + 1 >= MAX_RETRIES)
    /\ UNCHANGED <<runFrame, faults, tab, exc, pending, agencies_by_letter,
                   page_num, fetched, agencies, harvVars, diskVars>>

\* Line 335 and the next turn of "for attempt in range(MAX_RETRIES)".
DiscDelay ==
    /\ pc = "disc_delay"
    /\ attempt' = attempt + 1
    /\ pc' = IF attempt + 1 < MAX_RETRIES THEN "disc_attempt" ELSE "disc_next"
    /\ UNCHANGED <<runFrame, faults, tab, exc, pending, discVars, fetched, agencies,
                   harvVars, diskVars>>

\* A loop that forgets "page_num += 1".
DiscNextPage_SamePage ==
    /\ pc = "disc_next"
    /\ pc' = "disc_loop"
    /\ UNCHANGED <<runFrame, faults, tab, exc, pending, discVars, attempt,
                   fetched, agencies, harvVars, diskVars>>

\* Line 337.  The pages past the first page of an outage all answer alike,
\* and the cursor is not counted further there.
DiscNextPage ==
    /\ pc = "disc_next"
    /\ page_num' = IF Outage(page_num - 1) THEN page_num ELSE page_num + 1
    /\ pc' = "disc_loop"
    /\ UNCHANGED <<runFrame, faults, tab, exc, pending, agencies_by_letter,
                   reached_end, attempt, fetched, agencies, harvVars, diskVars>>

\* Lines 339-349: combine, store in self.agencies, return; the locals end.
FetchAgenciesReturn ==
    /\ pc = "disc_combine"
    /\ agencies' = Combine(agencies_by_letter, TARGET_LETTERS)
    /\ agencies_by_letter' = EmptyBuckets
    /\ page_num' = 0
    /\ reached_end' = FALSE
    /\ attempt' = 0
    /\ fetched' = "nothing"
    /\ pc' = "save_agencies"
    /\ UNCHANGED <<runFrame, faults, tab, exc, pending, harvVars, diskVars>>

---------------------------------------------------------------------------
(* save_agencies() (lines 532-540) and the empty-discovery exit.           *)

\* Lines 534-537: makedirs and open(path, "w"), which truncates the file.
SaveAgenciesOpen ==
    /\ pc = "save_agencies"
    /\ \/ /\ agenciesFile' = File("partial", <<>>, "run")
          /\ pc' = "save_agencies_dump"
          /\ UNCHANGED <<exc, pending>>
       \/ /\ Propagate(Raised("save_agencies", "OSError"))
          /\ UNCHANGED agenciesFile
    /\ UNCHANGED <<runFrame, faults, tab, discVars, attempt, fetched, agencies, harvVars,
                   openFile, pastFile>>

\* Lines 538-540: json.dump and the close at the end of the with block.
SaveAgenciesDump ==
    /\ pc = "save_agencies_dump"
    /\ \/ /\ agenciesFile' = File("complete", agencies, "run")
          /\ pc' = "check_agencies"
          /\ UNCHANGED <<exc, pending>>
       \/ /\ Propagate(Raised("save_agencies", "OSError"))
          /\ UNCHANGED agenciesFile
    /\ UNCHANGED <<runFrame, faults, tab, discVars, attempt, fetched, agencies, harvVars,
                   openFile, pastFile>>

\* A run() without the early return of lines 558-560.
RunCheckAgencies_NoEarlyReturn ==
    /\ pc = "check_agencies"
    /\ pc' = "scrape_all"
    /\ UNCHANGED <<runFrame, faults, tab, exc, pending, discVars, attempt, fetched,
                   agencies, harvVars, diskVars>>

\* Lines 558-562: return [], [] when nothing was discovered.
RunCheckAgencies ==
    /\ pc = "check_agencies"
    /\ IF agencies = <<>>
       THEN /\ pc' = "finally"
            /\ pending' = [kind |-> "return", exc |-> NoExc]
       ELSE /\ pc' = "scrape_all"
            /\ UNCHANGED pending
    /\ UNCHANGED <<runFrame, faults, tab, exc, discVars, attempt, fetched, agencies,
                   harvVars, diskVars>>

---------------------------------------------------------------------------
(* The remote feeds and the mapping of their entries.                      *)

\* A date string: well-formed ("%Y-%m-%d %H:%M:%S", here an hour count),
\* malformed, or empty.
Date(format, hours) == [format |-> format, hours |-> hours]
NoDate == Date("empty", 0)

\* A status code as the remote sends it: a number, a string, or nothing.
Code(type, n, text) == [type |-> type, n |-> n, text |-> text]
NoCode == Code("missing", 0, "")

\* A raw feed entry; a missing key reads as "".
Proj(ref, name, close, status, daysLeft) ==
    [isRecord |-> TRUE, ReferenceID |-> ref, ProjectName |-> name,
     DateClose |-> close, ProjectSubStatusID |-> status, DaysLeft |-> daysLeft]
NotAProject == [isRecord |-> FALSE, ReferenceID |-> "", ProjectName |-> "",
                DateClose |-> NoDate, ProjectSubStatusID |-> NoCode, DaysLeft |-> 0]

\* A keyed mapping of projects: <<key, value>> pairs in insertion order.
Keyed(values) == [i \in 1..Len(values) |-> <<"id" \o ToString(i), values[i]>>]

\* dict.values(): the values in insertion order.
Values(mapping) == [i \in 1..Len(mapping) |-> mapping[i][2]]

\* The current time, in hours, that datetime.now() may return.
NowValues == {100}

\* What each organization's feeds hold (the organizations of Entries).
RemoteFeed(agency_url, feed) ==
    LET domain == agency_url[2]
    IN  CASE domain = "da" /\ feed = "open" ->
               Payload("dict", "map",
                       Keyed(<<Proj("R1", "P1", Date("ok", 176), NoCode, 9), NotAProject>>))
          [] domain = "da" /\ feed = "past" ->
               Payload("dict", "list", <<Proj("R2", "P2", Date("ok", 50), Code("int", 1, ""), 0)>>)
          [] domain = "dx" /\ feed = "open" -> Payload("dict", "list", <<>>)
          [] domain = "dx" /\ feed = "past" -> Payload("dict", "other", <<>>)
          [] domain = "ga" /\ feed = "open" -> NoPayload
          [] domain = "ga" /\ feed = "past" ->
               Payload("dict", "map",
                       Keyed(<<Proj("R3", "P3", Date("bad", 0), Code("str", 0, "2"), 0),
                               Proj("R4", "P4", NoDate, Code("str", 0, ""), 0)>>))
          [] OTHER -> NoPayload

\* Page text a feed request can return: the feed, or something unusable.
GoodFeed(agency_url, feed) == Page(TRUE, TRUE, FeedJson(RemoteFeed(agency_url, feed)))
BadFeeds ==
    { Page(FALSE, FALSE, None),                              \* no wrapper
      Page(TRUE, FALSE, None),                               \* malformed JSON
      Page(TRUE, TRUE, EmptyList),                           \* a falsy value
      Page(TRUE, TRUE, Number),                              \* not a mapping
      Page(TRUE, TRUE, FeedJson(Payload("null", "missing", <<>>))) }   \* "payload": null

\* calculate_days_remaining (lines 107-127), with the clock as a parameter.
\* A day count rounded up instead of timedelta.days.
calculate_days_remaining_RoundsUp(deadline_str, now) ==
    IF deadline_str.format # "ok" THEN 0
    ELSE IF deadline_str.hours <= now THEN 0
    ELSE (deadline_str.hours - now + 23) \div 24

\* Lines 116-127; times are whole hours, a day is 24 of them.
calculate_days_remaining(deadline_str, now) ==
    IF deadline_str.format # "ok" THEN 0            \* ValueError, TypeError
    ELSE IF deadline_str.hours <= now THEN 0
    ELSE (deadline_str.hours - now) \div 24

\* A status read without str(): only a string can be a key of status_map.
Str_NoConversion(code) ==
    IF code.type = "str" THEN code.text ELSE ""

\* str(proj_data.get("ProjectSubStatusID", "")): the decimal digits of an
\* integer, "1.0" for the float 1.0, "None" for null, the text of a string,
\* "" for a missing key.
Str(code) ==
    CASE code.type = "int" -> ToString(code.n)
      [] code.type = "float" -> ToString(code.n) \o ".0"
      [] code.type = "null" -> "None"
      [] code.type = "str" -> code.text
      [] OTHER -> ""

\* status_map.get(status_id, "Unknown") (lines 455-459, 476)
status_map(status_id) ==
    CASE status_id = "1" -> "Closed"
      [] status_id = "2" -> "Cancelled"
      [] status_id = "3" -> "Awarded"
      [] OTHER -> "Unknown"

\* "project_items = projects" for a mapping: iterating it yields its keys,
\* strings, none of which is a record.
project_items_KeysOfMapping(projects) ==
    CASE projects.shape = "map" -> [i \in 1..Len(projects.items) |-> NotAProject]
      [] projects.shape = "list" -> projects.items
      [] OTHER -> <<>>

\* Lines 387-392, 462-467: the values of a keyed mapping, the items of a list.
project_items(projects) ==
    CASE projects.shape = "map" -> Values(projects.items)
      [] projects.shape = "list" -> projects.items
      [] OTHER -> <<>>

\* A record that copies the days-left value the remote sent.
OpenOpp_TrustsRemote(proj_data, now) ==
    [Status |-> "Open", Refference |-> proj_data.ReferenceID,
     ProjectName |-> proj_data.ProjectName, ClosedDate |-> proj_data.DateClose,
     DaysLeft |-> proj_data.DaysLeft]

\* Lines 398-407.
OpenOpp(proj_data, now) ==
    [Status |-> "Open", Refference |-> proj_data.ReferenceID,
     ProjectName |-> proj_data.ProjectName, ClosedDate |-> proj_data.DateClose,
     DaysLeft |-> IF proj_data.DateClose.format # "empty"
                  THEN calculate_days_remaining(proj_data.DateClose, now)
                  ELSE 0]

\* Lines 473-480.
PastOpp(proj_data) ==
    [Status |-> status_map(Str(proj_data.ProjectSubStatusID)),
     Refference |-> proj_data.ReferenceID,
     ProjectName |-> proj_data.ProjectName, ClosedDate |-> proj_data.DateClose]

\* Lines 394-409, 469-481: the loop over project_items.
RECURSIVE Opportunities(_, _, _)
Opportunities(feed, items, now) ==
    IF items = <<>> THEN <<>>
    ELSE LET rest == Opportunities(feed, Tail(items), now)
         IN  IF ~Head(items).isRecord THEN rest
             ELSE <<IF feed = "open" THEN OpenOpp(Head(items), now) ELSE PastOpp(Head(items))>>
                  \o rest

\* What one attempt does with the parsed value (lines 379-383, 447-451):
\* "continue", an AttributeError, or the opportunities read.
FeedVerdict(json_data) ==
    IF ~Truthy(json_data) THEN "continue"
    ELSE IF json_data.kind # "dict" THEN "AttributeError"
    ELSE IF json_data.payload.kind \notin {"dict", "missing"} THEN "AttributeError"
    ELSE "read"

---------------------------------------------------------------------------
(* scrape_all_opportunities() and the two harvesters (lines 351-517).      *)

\* "except (TypeError, AttributeError)" in place of "except Exception".
HarvestCatches_CodeErrorsOnly(e) == e \in CodeErrors

\* "except Exception" (lines 414, 486).
HarvestCatches(e) == e \in ExcKinds \cup CodeErrors

FeedUrl(feed, agency) == Url(feed, 0, agency.agency_url)
FeedTab(feed) == IF feed = "open" THEN "openOpportunities" ELSE "pastOpportunities"

\* Lines 498-499.
ScrapeAllBegin ==
    /\ pc = "scrape_all"
    /\ open_opps' = <<>>
    /\ past_opps' = <<>>
    /\ idx' = 1
    /\ pc' = "scrape_loop"
    /\ UNCHANGED <<runFrame, faults, tab, exc, pending, discVars, attempt, fetched,
                   agencies, result, diskVars>>

\* Lines 501-502, 517 and 564-565: the next agency, or the return of both lists.
ScrapeAllLoop ==
    /\ pc = "scrape_loop"
    /\ IF idx <= Len(agencies)
       THEN /\ pc' = "scrape_open"
            /\ UNCHANGED pending
       ELSE /\ pc' = "finally"
            /\ pending' = [kind |-> "return", exc |-> NoExc]
    /\ UNCHANGED <<runFrame, faults, tab, exc, discVars, attempt, fetched, agencies,
                   harvVars, diskVars>>

\* Lines 361-372 (432-440): the empty set for the agency, the retry loop starts.
FeedBegin(feed) ==
    /\ pc = "scrape_" \o feed
    /\ result' = AgencySet(FeedTab(feed), agencies[idx], <<>>)
    /\ attempt' = 0
    /\ fetched' = "nothing"
    /\ pc' = feed \o "_attempt"
    /\ UNCHANGED <<runFrame, faults, tab, exc, pending, discVars, agencies,
                   idx, open_opps, past_opps, diskVars>>

\* "for attempt in range(MAX_RETRIES + 1)": one turn more.
NextAttempt_OneMore(feed) ==
    /\ attempt' = attempt + 1
    /\ pc' = IF attempt + 1 <= MAX_RETRIES THEN feed \o "_attempt" ELSE feed \o "_return"

\* The next turn of "for attempt in range(MAX_RETRIES)", or line 417 (489).
NextAttempt(feed) ==
    /\ attempt' = attempt + 1
    /\ pc' = IF attempt + 1 < MAX_RETRIES THEN feed \o "_attempt" ELSE feed \o "_return"

FeedRaises(feed, e) ==
    /\ faults < MaxFaults
    /\ faults' = faults + 1
    /\ IF HarvestCatches(e)
       THEN /\ pc' = feed \o "_except"
            /\ exc' = Raised("scrape_" \o feed, e)
            /\ UNCHANGED pending
       ELSE Propagate(Raised("scrape_" \o feed, e))
    /\ UNCHANGED <<attempt, result>>

\* Lines 373-412 (441-484): one attempt at the feed.
FeedAttempt(feed) ==
    /\ pc = feed \o "_attempt"
    /\ tab' = GoTo(tab, FeedUrl(feed, agencies[idx]))
    /\ \/ \E e \in ExcKinds :                         \* go_to or page_source raises
             /\ fetched' = "raised"
             /\ FeedRaises(feed, e)
       \/ \E page_content \in BadFeeds \cup {GoodFeed(agencies[idx].agency_url, feed)},
             now \in NowValues :
             LET json_data == extract_json_from_page(page_content)
                 verdict   == FeedVerdict(json_data)
             IN  /\ fetched' = ResponseClass(page_content)
                 /\ CASE verdict = "continue" ->
                           /\ faults < MaxFaults
                           /\ faults' = faults + 1
                           /\ NextAttempt(feed)
                           /\ UNCHANGED <<exc, pending, result>>
                      [] verdict = "AttributeError" -> FeedRaises(feed, "AttributeError")
                      [] OTHER ->
                           /\ result' = [result EXCEPT !.opportunities =
                                 Opportunities(feed, project_items(json_data.payload.projects), now)]
                           /\ pc' = feed \o "_return"
                           /\ UNCHANGED <<faults, exc, pending, attempt>>
    /\ UNCHANGED <<runFrame, discVars, agencies, idx, open_opps, past_opps, diskVars>>

\* Lines 414-415 (486-487): the except block logs; the loop goes on.
FeedExcept(feed) ==
    /\ pc = feed \o "_except"
    /\ exc' = NoExc
    /\ NextAttempt(feed)
    /\ UNCHANGED <<runFrame, faults, tab, pending, discVars, fetched, agencies,
                   harvVars, diskVars>>

ScrapeOpenBegin   == FeedBegin("open")
ScrapeOpenAttempt == FeedAttempt("open")
ScrapeOpenExcept  == FeedExcept("open")

\* An append that leaves out a set without opportunities.
AppendOpen_SkipsEmpty ==
    /\ pc = "open_return"
    /\ open_opps' = IF result.opportunities = <<>> THEN open_opps ELSE Append(open_opps, result)
    /\ result' = NoResult
    /\ pc' = "scrape_past"
    /\ UNCHANGED <<runFrame, faults, tab, exc, pending, discVars, attempt, fetched,
                   agencies, idx, past_opps, diskVars>>

\* Lines 417, 505-506: return result; open_opps.append(open_data).
AppendOpen ==
    /\ pc = "open_return"
    /\ open_opps' = Append(open_opps, result)
    /\ result' = NoResult
    /\ pc' = "scrape_past"
    /\ UNCHANGED <<runFrame, faults, tab, exc, pending, discVars, attempt, fetched,
                   agencies, idx, past_opps, diskVars>>

ScrapePastBegin   == FeedBegin("past")
ScrapePastAttempt == FeedAttempt("past")
ScrapePastExcept  == FeedExcept("past")

\* The past set appended and the checkpoint left out.
AppendPast_SkipsCheckpoint ==
    /\ pc = "past_return"
    /\ past_opps' = Append(past_opps, result)
    /\ result' = NoResult
    /\ pc' = "loop_sleep"
    /\ UNCHANGED <<runFrame, faults, tab, exc, pending, discVars, attempt, fetched,
                   agencies, idx, open_opps, diskVars>>

\* Lines 489, 509-510: return result; past_opps.append(past_data).
AppendPast ==
    /\ pc = "past_return"
    /\ past_opps' = Append(past_opps, result)
    /\ result' = NoResult
    /\ pc' = "save_progress"
    /\ UNCHANGED <<runFrame, faults, tab, exc, pending, discVars, attempt, fetched,
                   agencies, idx, open_opps, diskVars>>

---------------------------------------------------------------------------
(* _save_progress() (lines 519-530) and the end of a loop turn.            *)

ckptFrame == <<runFrame, faults, tab, discVars, attempt, fetched, agencies, harvVars,
               agenciesFile>>

\* open(open_path, "a"): the file is opened without being truncated.
SaveProgressOpenFile_Appends ==
    /\ pc = "save_progress"
    /\ \/ /\ openFile' = File("partial", openFile.data, "run")
          /\ pc' = "dump_open"
          /\ UNCHANGED <<exc, pending>>
       \/ /\ Propagate(Raised("_save_progress", "OSError"))
          /\ UNCHANGED openFile
    /\ UNCHANGED <<ckptFrame, pastFile>>

\* Lines 521-526: makedirs; open(open_path, "w") truncates the open artifact.
SaveProgressOpenFile ==
    /\ pc = "save_progress"
    /\ \/ /\ openFile' = File("partial", <<>>, "run")
          /\ pc' = "dump_open"
          /\ UNCHANGED <<exc, pending>>
       \/ /\ Propagate(Raised("_save_progress", "OSError"))
          /\ UNCHANGED openFile
    /\ UNCHANGED <<ckptFrame, pastFile>>

\* Line 527: json.dump(open_opps, f) writes the list after what the opened file
\* holds (nothing, after the truncation); the file is closed.  json.dump emits
\* the same text for the same list: keys in insertion order, fixed indent.
SaveProgressDumpOpen ==
    /\ pc = "dump_open"
    /\ \/ /\ openFile' = File("complete", openFile.data \o open_opps, "run")
          /\ pc' = "open_past_file"
          /\ UNCHANGED <<exc, pending>>
       \/ /\ Propagate(Raised("_save_progress", "OSError"))
          /\ UNCHANGED openFile
    /\ UNCHANGED <<ckptFrame, pastFile>>

\* Line 529: open(past_path, "w") truncates the past artifact.
SaveProgressPastFile ==
    /\ pc = "open_past_file"
    /\ \/ /\ pastFile' = File("partial", <<>>, "run")
          /\ pc' = "dump_past"
          /\ UNCHANGED <<exc, pending>>
       \/ /\ Propagate(Raised("_save_progress", "OSError"))
          /\ UNCHANGED pastFile
    /\ UNCHANGED <<ckptFrame, openFile>>

\* A dump of the newest past set alone.
SaveProgressDumpPast_LatestOnly ==
    /\ pc = "dump_past"
    /\ \/ /\ pastFile' = File("complete",
                              pastFile.data \o <<past_opps[Len(past_opps)]>>, "run")
          /\ pc' = "loop_sleep"
          /\ UNCHANGED <<exc, pending>>
       \/ /\ Propagate(Raised("_save_progress", "OSError"))
          /\ UNCHANGED pastFile
    /\ UNCHANGED <<ckptFrame, openFile>>

\* Line 530: json.dump(past_opps, f), the file is closed.
SaveProgressDumpPast ==
    /\ pc = "dump_past"
    /\ \/ /\ pastFile' = File("complete", pastFile.data \o past_opps, "run")
          /\ pc' = "loop_sleep"
          /\ UNCHANGED <<exc, pending>>
       \/ /\ Propagate(Raised("_save_progress", "OSError"))
          /\ UNCHANGED pastFile
    /\ UNCHANGED <<ckptFrame, openFile>>

\* A loop turn that also writes the organizations harvested so far.
LoopSleep_RewritesAgencies ==
    /\ pc = "loop_sleep"
    /\ idx' = idx + 1
    /\ attempt' = 0
    /\ fetched' = "nothing"
    /\ pc' = "scrape_loop"
    /\ agenciesFile' = File("complete", SubSeq(agencies, 1, idx), "run")
    /\ UNCHANGED <<runFrame, faults, tab, exc, pending, discVars, agencies,
                   open_opps, past_opps, result, openFile, pastFile>>

\* Line 515 and the next turn of the for loop.
LoopSleep ==
    /\ pc = "loop_sleep"
    /\ idx' = idx + 1
    /\ attempt' = 0
    /\ fetched' = "nothing"
    /\ pc' = "scrape_loop"
    /\ UNCHANGED <<runFrame, faults, tab, exc, pending, discVars, agencies,
                   open_opps, past_opps, result, diskVars>>

---------------------------------------------------------------------------
(* The finally block of run() and close_browser() (lines 567-568, 173-184). *)

\* "except (TypeError, AttributeError)" in place of "except Exception".
CloseCatches_CodeErrorsOnly(e) == e \in CodeErrors

\* "except Exception" (line 183).
CloseCatches(e) == e \in ExcKinds \cup CodeErrors

closeFrame == <<cfgVars, faults, loginVars, discVars, attempt, fetched, agencies,
                harvVars, diskVars>>

\* The finally block is done: run() returns its value or raises what is pending.
RunEnds(p) ==
    /\ pc' = "done"
    /\ outcome' = IF p.kind = "raise" THEN "raised" ELSE "returned"

\* An exception inside close_browser(): caught at line 183, or it leaves the
\* finally block in place of whatever run() was about to do.
CloseRaises(e) ==
    IF CloseCatches(e)
    THEN /\ pc' = "close_except"
         /\ exc' = Raised("close_browser", e)
         /\ UNCHANGED <<pending, outcome>>
    ELSE /\ exc' = NoExc
         /\ pending' = [kind |-> "raise", exc |-> Raised("close_browser", e)]
         /\ RunEnds(pending')

\* The finally block (line 567) is entered.  When an exception brought control
\* here, the frames it left are gone and their locals with them; on a return
\* the lists being returned stay.
UnwindLocals ==
    IF pending.kind = "raise"
    THEN /\ agencies_by_letter' = EmptyBuckets
         /\ page_num' = 0
         /\ reached_end' = FALSE
         /\ attempt' = 0
         /\ fetched' = "nothing"
         /\ idx' = 0
         /\ open_opps' = <<>>
         /\ past_opps' = <<>>
         /\ result' = NoResult
    ELSE UNCHANGED <<discVars, attempt, fetched, harvVars>>

\* Lines 568, 175-177: close_browser() is entered; if self.tab: await self.tab.close()
CloseTab ==
    /\ pc = "finally"
    /\ closeCalls' = closeCalls + 1
    /\ UnwindLocals
    /\ IF tab.state = "none"
       THEN pc' = "close_browser" /\ UNCHANGED <<tab, exc, pending, outcome>>
       ELSE \/ /\ tab' = [NoTab EXCEPT !.state = "closed"]
               /\ pc' = "close_browser"
               /\ UNCHANGED <<exc, pending, outcome>>
            \/ \E e \in ExcKinds : CloseRaises(e) /\ UNCHANGED tab
    /\ UNCHANGED <<cfgVars, faults, loginVars, agencies, diskVars, browser>>

\* Lines 178-182: if self.browser: await self.browser.close(); log; sleep.
CloseBrowser ==
    /\ pc = "close_browser"
    /\ IF browser = "none"
       THEN RunEnds(pending) /\ UNCHANGED <<browser, exc, pending>>
       ELSE \/ /\ browser' = "closed"
               /\ RunEnds(pending)
               /\ UNCHANGED <<exc, pending>>
            \/ \E e \in ExcKinds : CloseRaises(e) /\ UNCHANGED browser
    /\ UNCHANGED <<closeFrame, tab, closeCalls>>

\* Lines 183-184: the except block logs a warning; close_browser() returns.
CloseExcept ==
    /\ pc = "close_except"
    /\ exc' = NoExc
    /\ RunEnds(pending)
    /\ UNCHANGED <<closeFrame, sessVars, pending, closeCalls>>

---------------------------------------------------------------------------
(* The whole run.                                                          *)

---------------------------------------------------------------------------
(* The callers of run().                                                   *)

callerFrame == <<AGENCIES_PER_LETTER, TARGET_LETTERS, faults, sessVars, exc, pending,
                 loginVars, discVars, attempt, fetched, agencies, harvVars,
                 diskVars, closeCalls, outcome, call, ret, locals, collection>>

\* A run_scraper that reports success only when an opportunity was scraped.
RunScraperReturn_NeedsOpportunity ==
    /\ pc = "done"
    /\ pc' = "reported"
    /\ caller_ret' = IF outcome = "raised" THEN "false"
                     ELSE IF \E i \in 1..Len(open_opps) : open_opps[i].opportunities # <<>>
                     THEN "true"
                     ELSE IF \E i \in 1..Len(past_opps) : past_opps[i].opportunities # <<>>
                     THEN "true"
                     ELSE "false"
    /\ UNCHANGED callerFrame

\* main.py lines 77-98: run_scraper awaits run() inside try/except Exception;
\* True when one of the returned lists is not empty, False otherwise and in
\* the except block.
RunScraperReturn ==
    /\ pc = "done"
    /\ pc' = "reported"
    /\ caller_ret' = IF outcome = "raised" THEN "false"
                     ELSE IF open_opps # <<>> \/ past_opps # <<>> THEN "true"
                     ELSE "false"
    /\ UNCHANGED callerFrame

\* scraper.py lines 584-589: the standalone entry point awaits run() with no
\* handler around it and prints the counts.
StandaloneMainEnds ==
    /\ pc = "done"
    /\ pc' = "exit"
    /\ caller_ret' = IF outcome = "raised" THEN "raised" ELSE "printed"
    /\ UNCHANGED callerFrame

Next ==
    \/ StartBrowser
    \/ LoginGoTo \/ LoginQueryEmail \/ LoginTypeEmail \/ LoginQueryContinue
    \/ LoginClickContinue \/ LoginQueryPassword \/ LoginTypePassword
    \/ LoginQuerySubmit \/ LoginClickSubmit \/ LoginExcept
    \/ RunCheckLogin
    \/ FetchAgenciesBegin \/ DiscLoopHead \/ DiscAttempt \/ DiscExcept
    \/ DiscDelay \/ DiscNextPage \/ FetchAgenciesReturn
    \/ SaveAgenciesOpen \/ SaveAgenciesDump \/ RunCheckAgencies
    \/ ScrapeAllBegin \/ ScrapeAllLoop
    \/ ScrapeOpenBegin \/ ScrapeOpenAttempt \/ ScrapeOpenExcept \/ AppendOpen
    \/ ScrapePastBegin \/ ScrapePastAttempt \/ ScrapePastExcept \/ AppendPast
    \/ SaveProgressOpenFile \/ SaveProgressDumpOpen
    \/ SaveProgressPastFile \/ SaveProgressDumpPast \/ LoopSleep
    \/ CloseTab \/ CloseBrowser \/ CloseExcept
    \/ RunScraperReturn \/ StandaloneMainEnds

Spec == Init /\ [][Next]_vars

\* The thread of control is never suspended forever: every await returns or
\* raises, every file operation completes or fails.
FairSpec == Spec /\ WF_vars(Next)

---------------------------------------------------------------------------
(* fetch_agencies() on its own.  run() calls it at line 555 in one of the   *)
(* states of DiscoveryEntry: the browser runs, login() has returned True    *)
(* (with or without the submit click) and nothing has been fetched.  Its    *)
(* steps are those of the run; the only task of the event loop is resumed   *)
(* after each await, hence the weak fairness.                               *)

\* The run up to the return of login() and what run() does with it.
LoginNext ==
    \/ StartBrowser
    \/ LoginGoTo \/ LoginQueryEmail \/ LoginTypeEmail
    \/ LoginQueryContinue \/ LoginClickContinue
    \/ LoginQueryPassword \/ LoginTypePassword
    \/ LoginQuerySubmit \/ LoginClickSubmit
    \/ LoginExcept
    \/ RunCheckLogin

\* The run on a login page whose elements are given.
LoginInit ==
    /\ Constructed
    /\ call \in { [fn |-> "login", page |-> p] : p \in SUBSET PageElements }
    /\ ret = NoRet
    /\ locals = NoLocals
    /\ collection = {}

LoginSpec == LoginInit /\ [][LoginNext]_vars

\* Everything but the remote: how run() stands when it calls fetch_agencies().
EntersDiscovery ==
    /\ AGENCIES_PER_LETTER \in 1..MaxQuota
    /\ TARGET_LETTERS \in LetterLists
    /\ \E disk \in {FreshDisk, OldDisk} :
          /\ agenciesFile = disk.agencies
          /\ openFile = disk.open
          /\ pastFile = disk.past
    /\ pc = "fetch_agencies"
    /\ browser = "running"
    /\ tab \in { [state |-> "open", url |-> LOGIN_URL, form |-> f] :
                    f \in {"password_typed", "password_submitted"} }
    /\ exc = NoExc
    /\ pending = NoPending
    /\ selector = 0
    /\ login_ret = "true"
    /\ agencies_by_letter = EmptyBuckets
    /\ page_num = 0
    /\ reached_end = FALSE
    /\ attempt = 0
    /\ fetched = "nothing"
    /\ agencies = <<>>
    /\ idx = 0
    /\ open_opps = <<>>
    /\ past_opps = <<>>
    /\ result = NoResult
    /\ closeCalls = 0
    /\ outcome = "running"
    /\ caller_ret = "none"
    /\ ret = NoRet
    /\ locals = NoLocals
    /\ collection = {}

DiscoveryEntry ==
    /\ EntersDiscovery
    /\ faults = 0
    /\ call = NoCall

DiscoveryNext ==
    \/ FetchAgenciesBegin
    \/ DiscLoopHead
    \/ DiscAttempt
    \/ DiscExcept
    \/ DiscDelay
    \/ DiscNextPage
    \/ FetchAgenciesReturn

DiscoverySpec == DiscoveryEntry /\ [][DiscoveryNext]_vars

FairDiscoverySpec == DiscoverySpec /\ WF_vars(DiscoveryNext)

---------------------------------------------------------------------------
(* fetch_agencies() against a given listing: the remote holds the pages of  *)
(* call.listing, answers every request and raises nothing.                  *)

---------------------------------------------------------------------------
(* fetch_agencies() against a remote that goes down: the pages before       *)
(* call.from are answered, and every request for a later page raises.       *)

OutageEntry ==
    /\ EntersDiscovery
    /\ faults = MaxFaults
    /\ call \in { [fn |-> "outage", from |-> k] : k \in 1..(MaxPages + 1) }

OutageSpec == OutageEntry /\ [][DiscoveryNext]_vars /\ WF_vars(DiscoveryNext)

ListedPages ==
    { << Org(<<"D", "a">>, "da"), Org(<<"g", "a">>, "ga") >>,
      << Org(<<"d", "x">>, "dx"), Org(<<"D", "a">>, "da") >>,
      << Org(<<"g", "a">>, "ga"), Org(<<"Z", "e">>, "ze"), Org(<<"d", "x">>, "dx") >>,
      << Org(<<>>, "nn"), Org(<<"d", "x">>, "dx") >>,
      << Org(<<"Z", "e">>, "ze") >>,
      << NotARecord, Org(<<"g", "a">>, "ga"), Org(<<"G", "b">>, ""), Org(<<"D", "a">>, "da") >> }

ListingEntry ==
    /\ EntersDiscovery
    /\ faults = MaxFaults
    /\ call \in { [fn |-> "fetch_agencies", listing |-> l] :
                     l \in SeqsUpTo(ListedPages, MaxPages) }

ListingNext ==
    \/ FetchAgenciesBegin
    \/ DiscLoopHead
    \/ DiscAttempt
    \/ DiscNextPage
    \/ FetchAgenciesReturn

ListingSpec == ListingEntry /\ [][ListingNext]_vars

---------------------------------------------------------------------------
(* Functions called on their own: the arguments are drawn in the initial   *)
(* state, one step applies the function.  The scraper stays as constructed. *)

pureFrame == <<AGENCIES_PER_LETTER, TARGET_LETTERS, faults, pc, sessVars, exc, pending,
               loginVars, discVars, attempt, fetched, agencies, harvVars,
               diskVars, closeCalls, outcome, caller_ret, call, locals, collection>>

\* calculate_days_remaining(deadline_str) at a current time: a well-formed
\* timestamp, text that strptime rejects (ValueError), the empty string, or a
\* value that is not a string (TypeError).
Deadlines ==
    { Date("ok", h) : h \in 0..MaxHours }
       \cup { Date("bad", 0), NoDate, Date("not_a_string", 0) }

DaysInit ==
    /\ Constructed
    /\ call \in { [fn |-> "calculate_days_remaining", deadline_str |-> d, now |-> n] :
                     d \in Deadlines, n \in 0..MaxHours }
    /\ ret = NoRet
    /\ locals = NoLocals
    /\ collection = {}

CallDaysRemaining ==
    /\ call.fn = "calculate_days_remaining"
    /\ ~ret.done
    /\ ret' = Returns(calculate_days_remaining(call.deadline_str, call.now))
    /\ UNCHANGED pureFrame

DaysNext == CallDaysRemaining

DaysSpec == DaysInit /\ [][DaysNext]_vars

\* _save_progress(open_opps, past_opps) called on its own, and called again
\* with the same lists once it has returned.  The lists are those of a harvest
\* of one or two organizations, each feed read or failed.
Read(feed, agency) ==
    LET json_data == extract_json_from_page(GoodFeed(agency.agency_url, feed))
    IN  IF FeedVerdict(json_data) = "read"
        THEN Opportunities(feed, project_items(json_data.payload.projects), 100)
        ELSE <<>>

Harvested(feed, orgs, ok) ==
    [i \in 1..Len(orgs) |->
        AgencySet(FeedTab(feed), orgs[i], IF ok THEN Read(feed, orgs[i]) ELSE <<>>)]

CkptOrgs ==
    SeqsUpTo({Agency(<<"D", "a">>, "da"), Agency(<<"d", "x">>, "dx"),
              Agency(<<"g", "a">>, "ga")}, 2) \ {<<>>}

CkptInit ==
    /\ AGENCIES_PER_LETTER = MaxQuota
    /\ TARGET_LETTERS = <<"G", "D">>
    /\ \E old \in BOOLEAN, orgs \in CkptOrgs, ok \in BOOLEAN :
          LET disk == IF old THEN OldDisk ELSE FreshDisk
          IN  /\ call = [fn |-> "_save_progress", n |-> 1, old |-> old]
              /\ agenciesFile = File("complete", orgs, "run")
              /\ openFile = disk.open
              /\ pastFile = disk.past
              /\ agencies = orgs
              /\ idx = Len(orgs)
              /\ open_opps = Harvested("open", orgs, ok)
              /\ past_opps = Harvested("past", orgs, ok)
              /\ tab = [state |-> "open", url |-> FeedUrl("past", orgs[Len(orgs)]),
                        form |-> "none"]
    /\ ret = NoRet
    /\ locals = NoLocals
    /\ collection = {}
    /\ faults = 0
    /\ pc = "save_progress"
    /\ browser = "running"
    /\ exc = NoExc
    /\ pending = NoPending
    /\ selector = 0
    /\ login_ret = "true"
    /\ agencies_by_letter = EmptyBuckets
    /\ page_num = 0
    /\ reached_end = FALSE
    /\ attempt = 0
    /\ fetched = "nothing"
    /\ result = NoResult
    /\ closeCalls = 0
    /\ outcome = "running"
    /\ caller_ret = "none"

\* The first call has returned; the artifacts it left are kept for comparison.
SaveProgressAgain ==
    /\ pc = "loop_sleep"
    /\ call.fn = "_save_progress"
    /\ call.n = 1
    /\ call' = [call EXCEPT !.n = 2]
    /\ ret' = Returns(<<openFile, pastFile>>)
    /\ pc' = "save_progress"
    /\ UNCHANGED <<AGENCIES_PER_LETTER, TARGET_LETTERS, faults, sessVars, exc, pending,
                   loginVars, discVars, attempt, fetched, agencies, harvVars,
                   diskVars, closeCalls, outcome, caller_ret, locals, collection>>

CkptNext ==
    \/ SaveProgressOpenFile \/ SaveProgressDumpOpen
    \/ SaveProgressPastFile \/ SaveProgressDumpPast
    \/ SaveProgressAgain

CkptSpec == CkptInit /\ [][CkptNext]_vars

\* One entry of a past feed turned into a record (lines 469-481); the entry's
\* status code is a number, a float, null, a string or missing.
StatusCodes ==
    { Code("int", n, "") : n \in 0..MaxCode }
       \cup { Code("float", n, "") : n \in 1..3 }
       \cup { Code("str", 0, t) : t \in {"", "1", "2", "3", "4", "01", " 1", "Closed"} }
       \cup { Code("null", 0, ""), NoCode }

StatusInit ==
    /\ Constructed
    /\ call \in { [fn |-> "past_record",
                   proj_data |-> Proj("R", "P", d, c, 0)] :
                     c \in StatusCodes, d \in {NoDate, Date("ok", 50)} }
    /\ ret = NoRet
    /\ locals = NoLocals
    /\ collection = {}

CallPastRecord ==
    /\ call.fn = "past_record"
    /\ ~ret.done
    /\ ret' = Returns(PastOpp(call.proj_data))
    /\ UNCHANGED pureFrame

StatusNext == CallPastRecord

StatusSpec == StatusInit /\ [][StatusNext]_vars

---------------------------------------------------------------------------
(* main() of main.py (lines 172-246): the flags and the credentials are the *)
(* arguments; each phase that runs reports success or failure.              *)

---------------------------------------------------------------------------
(* The part of a harvester that turns the payload's projects into records   *)
(* (lines 383-411, 451-483), applied to the same values sent as a plain     *)
(* list and as a keyed mapping.                                             *)

FeedValues ==
    { Proj("R1", "P1", Date("ok", 176), NoCode, 9),
      Proj("R2", "P2", NoDate, Code("int", 1, ""), 0),
      Proj("R3", "P3", Date("bad", 0), Code("str", 0, "2"), 0),
      NotAProject }

ShapesInit ==
    /\ Constructed
    /\ call \in { [fn |-> "opportunities", feed |-> f, values |-> v, now |-> n] :
                     f \in {"open", "past"}, v \in SeqsUpTo(FeedValues, MaxItems),
                     n \in NowValues }
    /\ ret = NoRet
    /\ locals = NoLocals
    /\ collection = {}

\* What the harvester reads from a payload whose "projects" is given.
Extracted(feed, projects, now) ==
    LET json_data == extract_json_from_page(Page(TRUE, TRUE, FeedJson(projects)))
    IN  IF FeedVerdict(json_data) = "read"
        THEN Opportunities(feed, project_items(json_data.payload.projects), now)
        ELSE <<>>

CallOpportunities ==
    /\ call.fn = "opportunities"
    /\ ~ret.done
    /\ ret' = Returns(
          [list  |-> Extracted(call.feed, Payload("dict", "list", call.values), call.now),
           keyed |-> Extracted(call.feed, Payload("dict", "map", Keyed(call.values)),
                               call.now)])
    /\ UNCHANGED pureFrame

ShapesNext == CallOpportunities

ShapesSpec == ShapesInit /\ [][ShapesNext]_vars

---------------------------------------------------------------------------
(* Two open-feed payloads of one entry each, the entries alike in reference *)
(* id, project name and close date and free in what else the remote sends.  *)

CloseDates == { NoDate, Date("bad", 0), Date("ok", 50), Date("ok", 110), Date("ok", 176) }
RemoteExtras == { [status |-> s, daysLeft |-> d] : s \in {NoCode, Code("int", 1, "")},
                                                   d \in {0, 3, 9} }

RecordsInit ==
    /\ Constructed
    /\ call \in { [fn |-> "open_records", close |-> c, a |-> x, b |-> y, now |-> n] :
                     c \in CloseDates, x \in RemoteExtras, y \in RemoteExtras,
                     n \in {100, 130} }
    /\ ret = NoRet
    /\ locals = NoLocals
    /\ collection = {}

CallOpenRecords ==
    /\ call.fn = "open_records"
    /\ ~ret.done
    /\ LET entry(x) == Proj("R", "P", call.close, x.status, x.daysLeft)
           records(x) == Extracted("open", Payload("dict", "list", <<entry(x)>>), call.now)
       IN  ret' = Returns([a |-> records(call.a), b |-> records(call.b)])
    /\ UNCHANGED pureFrame

RecordsNext == CallOpenRecords

RecordsSpec == RecordsInit /\ [][RecordsNext]_vars

MainArgs ==
    [fn : {"main"}, scrape_only : BOOLEAN, parse_only : BOOLEAN, upload_only : BOOLEAN,
     email : BOOLEAN, password : BOOLEAN]

MainInit ==
    /\ Constructed
    /\ call \in MainArgs
    /\ ret = NoRet
    /\ locals = [at |-> "phases", do_scrape |-> FALSE, do_parse |-> FALSE,
                 do_upload |-> FALSE, success |-> TRUE, ran |-> <<>>,
                 failed |-> {}]
    /\ collection = {}

mainFrame == <<AGENCIES_PER_LETTER, TARGET_LETTERS, faults, pc, sessVars, exc, pending,
               loginVars, discVars, attempt, fetched, agencies, harvVars,
               diskVars, closeCalls, outcome, caller_ret, call, collection>>

\* Lines 206-209.
MainDeterminePhases ==
    /\ locals.at = "phases"
    /\ locals' = [locals EXCEPT !.at = "credentials",
                                !.do_scrape = do_scrape(call),
                                !.do_parse = do_parse(call),
                                !.do_upload = do_upload(call)]
    /\ UNCHANGED <<mainFrame, ret>>

\* Lines 211-216: sys.exit(1) when scraping is selected without credentials.
MainCheckCredentials ==
    /\ locals.at = "credentials"
    /\ IF locals.do_scrape /\ (~call.email \/ ~call.password)
       THEN /\ locals' = [locals EXCEPT !.at = "exited"]
            /\ ret' = Returns("exit 1")
       ELSE /\ locals' = [locals EXCEPT !.at = "scrape"]
            /\ UNCHANGED ret
    /\ UNCHANGED mainFrame

\* "success = success and run_x()": a phase is skipped once one has failed.
MainPhase_StopsAfterFailure(phase, selected, next) ==
    /\ locals.at = phase
    /\ IF selected /\ locals.success
       THEN \E ok \in BOOLEAN :
               locals' = [locals EXCEPT !.at = next,
                                        !.success = ok /\ locals.success,
                                        !.ran = Append(locals.ran, phase),
                                        !.failed = IF ok THEN @ ELSE @ \cup {phase}]
       ELSE locals' = [locals EXCEPT !.at = next]
    /\ UNCHANGED <<mainFrame, ret>>

\* One of lines 221-228: "if do_x: success = run_x() and success".
MainPhase(phase, selected, next) ==
    /\ locals.at = phase
    /\ IF selected
       THEN \E ok \in BOOLEAN :
               locals' = [locals EXCEPT !.at = next,
                                        !.success = ok /\ locals.success,
                                        !.ran = Append(locals.ran, phase),
                                        !.failed = IF ok THEN @ ELSE @ \cup {phase}]
       ELSE locals' = [locals EXCEPT !.at = next]
    /\ UNCHANGED <<mainFrame, ret>>

MainScrape == MainPhase("scrape", locals.do_scrape, "parse")
MainParse  == MainPhase("parse", locals.do_parse, "upload")
MainUpload == MainPhase("upload", locals.do_upload, "summary")

\* Lines 230-246: the summary.
MainSummary ==
    /\ locals.at = "summary"
    /\ locals' = [locals EXCEPT !.at = "returned"]
    /\ ret' = Returns(IF locals.success THEN "SUCCESS" ELSE "COMPLETED WITH ERRORS")
    /\ UNCHANGED mainFrame

MainNext ==
    \/ MainDeterminePhases \/ MainCheckCredentials
    \/ MainScrape \/ MainParse \/ MainUpload
    \/ MainSummary

MainSpec == MainInit /\ [][MainNext]_vars

---------------------------------------------------------------------------
(* MongoHandler.insert_opportunities (db_handler.py lines 166-217) on one   *)
(* collection, called up to MaxCalls times with lists of parsed documents.  *)

\* str.lower() on the names used here.
Lower(s) == IF s = "Acme_1" THEN "acme_1" ELSE s

\* data_parser.py lines 48-55: md5 of the lowered "<org>_<bidding id>"; the
\* digest is written as its preimage.
generate_document_id(org_name, bidding_id) ==
    "md5:" \o Lower(org_name \o "_" \o bidding_id)

Document(org_name, bidding_id) ==
    [_document_id |-> generate_document_id(org_name, bidding_id),
     organization_name |-> org_name, bidding_id |-> bidding_id]

\* Two documents whose ids collide, and one that carries no _document_id.
Documents ==
    { Document("Acme", "1"), Document("acme", "1"),
      [organization_name |-> "Beta", bidding_id |-> "2"] }

\* opp.get("_document_id")
DocumentId(opp) ==
    IF "_document_id" \in DOMAIN opp THEN opp._document_id ELSE "None"

\* The document an upsert creates: the filter's field and the fields of opp,
\* which by then carries _inserted_at.
Stored(opp, now) ==
    [_document_id |-> DocumentId(opp), organization_name |-> opp.organization_name,
     bidding_id |-> opp.bidding_id, _inserted_at |-> now]

\* update_one with {"$set": opp} in place of {"$setOnInsert": opp}.
update_one_Set(coll, id, doc) ==
    IF \E d \in coll : d._document_id = id
    THEN [collection |-> { d \in coll : d._document_id # id } \cup { doc },
          upserted_id |-> FALSE]
    ELSE [collection |-> coll \cup { doc }, upserted_id |-> TRUE]

\* Lines 196-200: update_one({"_document_id": id}, {"$setOnInsert": opp},
\* upsert=True).
update_one(coll, id, doc) ==
    IF \E d \in coll : d._document_id = id
    THEN [collection |-> coll, upserted_id |-> FALSE]
    ELSE [collection |-> coll \cup { doc }, upserted_id |-> TRUE]

\* What another writer stores when it wins the race for an id.
Concurrent(id, now) ==
    [_document_id |-> id, organization_name |-> "other", bidding_id |-> "other",
     _inserted_at |-> now]

\* What is remembered of the call before: whether it was passed the same list
\* and, if so, how many documents it reported as failed.
NoPrev == [same |-> FALSE, failed |-> 0]

InsertInit ==
    /\ Constructed
    /\ AGENCIES_PER_LETTER = MaxQuota
    /\ TARGET_LETTERS = <<"G", "D">>
    /\ agenciesFile = FreshDisk.agencies
    /\ call = NoCall
    /\ ret = NoRet
    /\ locals = [at |-> "idle", i |-> 0, inserted |-> 0, skipped |-> 0, failed |-> 0,
                 calls |-> 0, prev |-> NoPrev]
    /\ collection = {}

insertFrame == <<AGENCIES_PER_LETTER, TARGET_LETTERS, pc, sessVars, exc, pending,
                 loginVars, discVars, attempt, fetched, agencies, harvVars,
                 diskVars, closeCalls, outcome, caller_ret>>

\* Lines 179-187: a call; the empty list returns at once.
InsertBegin ==
    /\ locals.at = "idle"
    /\ locals.calls < MaxCalls
    /\ \E l \in SeqsUpTo(Documents, MaxDocs) :
          /\ call' = [fn |-> "insert_opportunities", opportunities |-> l]
          /\ locals' = [locals EXCEPT
                           !.at = IF l = <<>> THEN "return" ELSE "loop",
                           !.i = 1, !.inserted = 0, !.skipped = 0, !.failed = 0,
                           !.calls = @ + 1,
                           !.prev = IF ret.done /\ call.opportunities = l
                                    THEN [same |-> TRUE, failed |-> ret.value.failed]
                                    ELSE NoPrev]
    /\ ret' = NoRet
    /\ UNCHANGED <<insertFrame, faults, collection>>

\* datetime.now() of line 192: the clock advances from call to call.
Now == 100 + locals.calls

Advance(counter) ==
    [locals EXCEPT !.at = IF locals.i = Len(call.opportunities) THEN "return" ELSE "loop",
                   !.i = @ + 1,
                   ![counter] = @ + 1]

\* Lines 189-204: the upsert answers.
InsertOne ==
    /\ locals.at = "loop"
    /\ LET opp == call.opportunities[locals.i]
           res == update_one(collection, DocumentId(opp), Stored(opp, Now))
       IN  /\ collection' = res.collection
           /\ locals' = Advance(IF res.upserted_id THEN "inserted" ELSE "skipped")
    /\ UNCHANGED <<insertFrame, faults, call, ret>>

\* Lines 209-210: DuplicateKeyError, raised when another writer stored the id
\* between the match and the insert.
InsertDuplicateKey ==
    /\ locals.at = "loop"
    /\ faults < MaxFaults
    /\ LET id == DocumentId(call.opportunities[locals.i])
       IN  /\ ~ \E d \in collection : d._document_id = id
           /\ collection' = collection \cup { Concurrent(id, Now) }
    /\ faults' = faults + 1
    /\ locals' = Advance("skipped")
    /\ UNCHANGED <<insertFrame, call, ret>>

\* Lines 211-213: any other exception; the write may or may not have been
\* applied before the error reached the client.
InsertFails ==
    /\ locals.at = "loop"
    /\ faults < MaxFaults
    /\ LET opp == call.opportunities[locals.i]
           res == update_one(collection, DocumentId(opp), Stored(opp, Now))
       IN  \E applied \in BOOLEAN :
              collection' = IF applied THEN res.collection ELSE collection
    /\ faults' = faults + 1
    /\ locals' = Advance("failed")
    /\ UNCHANGED <<insertFrame, call, ret>>

\* Lines 180, 215-217.
InsertReturn ==
    /\ locals.at = "return"
    /\ ret' = Returns([inserted |-> locals.inserted, skipped |-> locals.skipped,
                       failed |-> locals.failed])
    /\ locals' = [locals EXCEPT !.at = "idle"]
    /\ UNCHANGED <<insertFrame, faults, call, collection>>

InsertNext ==
    \/ InsertBegin
    \/ InsertOne \/ InsertDuplicateKey \/ InsertFails
    \/ InsertReturn

InsertSpec == InsertInit /\ [][InsertNext]_vars

---------------------------------------------------------------------------
(* Positions.                                                              *)

LoginPcs == {"login", "login_query_email", "login_type_email",
             "login_query_continue", "login_click_continue",
             "login_query_password", "login_type_password",
             "login_query_submit", "login_click_submit"}
DiscPcs == {"disc_loop", "disc_attempt", "disc_except", "disc_delay",
            "disc_next", "disc_combine"}
OpenPcs == {"scrape_open", "open_attempt", "open_except", "open_return"}
PastPcs == {"scrape_past", "past_attempt", "past_except", "past_return"}
CkptPcs == {"save_progress", "dump_open", "open_past_file", "dump_past"}
ClosePcs == {"close_browser", "close_except"}
EndPcs == {"done", "reported", "exit"}      \* run() has returned or raised

FirstLetter(agency) == Upper(agency.agency_name[1])
Names(sets) == [i \in 1..Len(sets) |-> sets[i].agency_name]
IsPrefix(s, t) == Len(s) <= Len(t) /\ \A i \in 1..Len(s) : s[i] = t[i]

---------------------------------------------------------------------------
(* C1. In every state of discovery each bucket holds at most                *)
(* AGENCIES_PER_LETTER organizations, every organization in the bucket of   *)
(* letter c has a name whose upper-cased first character is c, c is a       *)
(* target letter, and the list discovery returns holds no organization      *)
(* whose first letter is outside TARGET_LETTERS.                            *)

C1_BucketsWithinQuotaAndLetter ==
    /\ DOMAIN agencies_by_letter = Range(TARGET_LETTERS)
    /\ \A c \in DOMAIN agencies_by_letter :
          /\ Len(agencies_by_letter[c]) <= AGENCIES_PER_LETTER
          /\ \A i \in 1..Len(agencies_by_letter[c]) :
                FirstLetter(agencies_by_letter[c][i]) = c
    /\ \A i \in 1..Len(agencies) : FirstLetter(agencies[i]) \in Range(TARGET_LETTERS)

\* A bucket is full at the largest quota, holds a name that starts in lower
\* case, and discovery is still fetching.
C1_Witness ==
    /\ pc = "disc_attempt"
    /\ AGENCIES_PER_LETTER = MaxQuota
    /\ \E c \in DOMAIN agencies_by_letter :
          /\ Len(agencies_by_letter[c]) = AGENCIES_PER_LETTER
          /\ \E i \in 1..Len(agencies_by_letter[c]) :
                agencies_by_letter[c][i].agency_name[1] # c

---------------------------------------------------------------------------
(* C2. At every point of a run the open artifact and the past artifact      *)
(* each hold a complete snapshot, both cover the same organizations, and    *)
(* what this run wrote covers organizations in discovery order.             *)

C2_ArtifactsAlwaysConsistent ==
    /\ openFile.state # "partial"
    /\ pastFile.state # "partial"
    /\ Names(openFile.data) = Names(pastFile.data)
    /\ openFile.by = "run" => IsPrefix(Names(openFile.data), Names(agencies))

---------------------------------------------------------------------------
(* C3. Discovery terminates after a bounded number of pages: the listing    *)
(* has at most MaxPages pages with entries, every MAX_RETRIES failed        *)
(* requests move the cursor one page further, and fetch_agencies, once      *)
(* begun, returns.                                                          *)

C3_PageBound == MaxPages + (faults \div MAX_RETRIES) + 2

C3_DiscoveryTerminates ==
    /\ [](page_num <= C3_PageBound)
    /\ [](pc = "disc_attempt" => page_num < C3_PageBound)
    /\ (pc = "fetch_agencies") ~> (pc = "save_agencies")

\* Discovery is about to return after an empty page beyond the last page
\* with entries, with a bucket still below quota.
C3_Witness ==
    /\ pc = "disc_combine"
    /\ reached_end
    /\ fetched = "empty_list"
    /\ page_num > MaxPages + 1
    /\ ~all_full(agencies_by_letter)

---------------------------------------------------------------------------
(* C4. When all MAX_RETRIES attempts at a feed have failed, the harvester   *)
(* returns the set with the organization's name and url and no              *)
(* opportunities; no exception of a harvester ever reaches run(), so the    *)
(* run goes on with the next feed and the next organization.                *)

C4_FailedFeedYieldsEmptySet ==
    /\ \A feed \in {"open", "past"} :
          (pc = feed \o "_return" /\ attempt = MAX_RETRIES)
             => result = AgencySet(FeedTab(feed), agencies[idx], <<>>)
    /\ pending.exc.origin \notin {"scrape_open", "scrape_past"}
    /\ exc.origin \in {"scrape_open", "scrape_past"} => pc \in {"open_except", "past_except"}

\* The open feed of the first organization, which has an open project, failed
\* on every attempt, and the second organization is being harvested.
C4_Witness ==
    /\ pc = "open_attempt"
    /\ idx = 2
    /\ agencies[1].agency_url = <<"https://", "da">>
    /\ open_opps[1] = AgencySet("openOpportunities", agencies[1], <<>>)

---------------------------------------------------------------------------
(* C5. close_browser() is entered exactly once before run() returns or      *)
(* raises, on every exit path, and not before the finally block.            *)

C5_TeardownExactlyOnce ==
    /\ closeCalls <= 1
    /\ pc \in EndPcs => closeCalls = 1
    /\ closeCalls = 1 => pc \in ClosePcs \cup EndPcs

\* run() has raised the error of a failed checkpoint write, after teardown.
C5_Witness ==
    /\ pc = "done"
    /\ outcome = "raised"
    /\ pending.exc.origin = "_save_progress"
    /\ closeCalls = 1

---------------------------------------------------------------------------
(* C6. In the harvest loop one open set and one past set are appended per   *)
(* organization, in discovery order: while organization idx is harvested    *)
(* the accumulators hold idx - 1 sets, after its open (past) harvest the    *)
(* open (past) accumulator holds idx, and at the return both hold one set   *)
(* for every discovered organization.                                       *)

C6_OneSetPerOrganization ==
    /\ pc \in {"scrape_loop"} \cup OpenPcs
          => Len(open_opps) = idx - 1 /\ Len(past_opps) = idx - 1
    /\ pc \in PastPcs => Len(open_opps) = idx /\ Len(past_opps) = idx - 1
    /\ pc \in CkptPcs \cup {"loop_sleep"} => Len(open_opps) = idx /\ Len(past_opps) = idx
    /\ (pending.kind = "return" /\ agencies # <<>>)
          => Len(open_opps) = Len(agencies) /\ Len(past_opps) = Len(agencies)
    /\ IsPrefix(Names(open_opps), Names(agencies))
    /\ IsPrefix(Names(past_opps), Names(agencies))

\* Two organizations are done, one of their feeds failed on all attempts.
C6_Witness ==
    /\ pc = "loop_sleep"
    /\ idx = 2
    /\ faults >= MAX_RETRIES
    /\ Len(open_opps) = 2 /\ Len(past_opps) = 2
    /\ agencies[1].agency_url = <<"https://", "da">>
    /\ past_opps[1].opportunities = <<>>

---------------------------------------------------------------------------
(* C7. (as claimed) A listing page whose payload fails to parse or yields   *)
(* nothing does not end discovery.                                          *)

---------------------------------------------------------------------------
(* C8. Discovery stops at the first page that is an empty list or an error  *)
(* mapping: the flag is set, no further page is requested, the buckets stay *)
(* as they are, nothing is raised, and what is returned is the buckets      *)
(* combined, short buckets included.                                        *)

C8_StopsAtEndOfData ==
    [][ /\ (pc = "disc_attempt" /\ fetched' \in {"empty_list", "error_mapping"})
            => /\ reached_end'
               /\ pc' = "disc_next"
               /\ UNCHANGED <<agencies_by_letter, exc, pending>>
        /\ (pc \in {"disc_next", "disc_loop"} /\ reached_end)
            => /\ pc' \in {"disc_loop", "disc_combine"}
               /\ UNCHANGED <<tab, agencies_by_letter, reached_end, exc, pending>>
        /\ pc = "disc_combine"
            => /\ agencies' = Combine(agencies_by_letter, TARGET_LETTERS)
               /\ pc' = "save_agencies"
               /\ UNCHANGED <<tab, exc, pending>>
      ]_vars

\* Discovery returns after an error mapping on page 2 with one bucket filled
\* in part and another empty.
C8_Witness ==
    /\ pc = "disc_combine"
    /\ fetched = "error_mapping"
    /\ page_num = 3
    /\ \E c \in DOMAIN agencies_by_letter :
          /\ agencies_by_letter[c] # <<>>
          /\ Len(agencies_by_letter[c]) < AGENCIES_PER_LETTER
    /\ \E c \in DOMAIN agencies_by_letter : agencies_by_letter[c] = <<>>

---------------------------------------------------------------------------
(* C9. After login() has returned False the run is aborted: no further      *)
(* login step, no listing or feed request, no artifact written, teardown    *)
(* runs, and run() ends by raising the authentication failure.              *)

C9_LoginFailureAborts ==
    login_ret = "false" =>
        /\ pc \in {"login_return", "finally"} \cup ClosePcs \cup EndPcs
        /\ tab.url.kind \in {"blank", "login"}
        /\ agenciesFile.by # "run" /\ openFile.by # "run" /\ pastFile.by # "run"
        /\ pc # "login_return" => pending = [kind |-> "raise", exc |-> Raised("run", "auth_failed")]
        /\ pc \in EndPcs => outcome = "raised" /\ closeCalls = 1

\* run() has raised after the password field was not found.
C9_Witness ==
    /\ pc = "done"
    /\ login_ret = "false"
    /\ selector = 0
    /\ outcome = "raised"
    /\ browser = "closed"

---------------------------------------------------------------------------
(* C10. login() never lets an exception out: from a step of login() control *)
(* goes to another step, to the return or to the except block, and the      *)
(* except block returns False.                                              *)

C10_LoginNeverRaises ==
    [][ /\ pc \in LoginPcs
            => /\ pc' \in LoginPcs \cup {"login_except", "login_return"}
               /\ pending' = NoPending
               /\ exc' # NoExc => pc' = "login_except"
        /\ pc = "login_except"
            => pc' = "login_return" /\ login_ret' = "false" /\ pending' = NoPending
      ]_vars

\* login() has returned False after the password was typed: a missing submit
\* button returns True, so an error was raised by the query or the click.
C10_Witness ==
    /\ pc = "login_return"
    /\ login_ret = "false"
    /\ tab.form = "password_typed"

---------------------------------------------------------------------------
(* C11. Whenever login() returns True the password was typed and the        *)
(* submit button was then clicked.                                          *)

C11_TrueOnlyAfterSubmitClicked ==
    (pc = "login_return" /\ login_ret = "true") => tab.form = "password_submitted"

---------------------------------------------------------------------------
(* C12. (as claimed) No exception propagates out of the orchestrator's      *)
(* top-level call, run(), nor out of an entry point that calls it.          *)

C12_NoExceptionLeavesRun ==
    outcome # "raised" /\ caller_ret # "raised"

(* C12. (amended) run() lets exceptions out, always after teardown: those   *)
(* of start_browser, the authentication failure it raises itself, and those *)
(* of save_agencies and _save_progress; exceptions of login(), of listing   *)
(* and feed requests and of close_browser() never leave it.  run_scraper    *)
(* catches whatever run() raises and reports it as False; the standalone    *)
(* main() of scraper.py does not, and ends by raising exactly when run()    *)
(* raised.                                                                  *)

C12_FailureReportedByRunScraper ==
    /\ outcome = "raised"
          => /\ closeCalls = 1
             /\ pending.exc.origin \in {"start_browser", "run", "save_agencies",
                                        "_save_progress"}
    /\ pc = "reported"
          => /\ caller_ret \in {"true", "false"}
             /\ outcome = "raised" => caller_ret = "false"
    /\ pc = "exit" => (caller_ret = "raised" <=> outcome = "raised")

\* run() raised the error of a failed agencies.json write after the browser
\* was closed, and run_scraper has returned False.
C12_Witness ==
    /\ pc = "reported"
    /\ outcome = "raised"
    /\ pending.exc.origin = "save_agencies"
    /\ browser = "closed"
    /\ caller_ret = "false"

---------------------------------------------------------------------------
(* C13. (as claimed) calculate_days_remaining returns 0 for an unparsable   *)
(* input and for a deadline at or before the current time, and for every    *)
(* deadline strictly in the future a positive number, the whole-day floor   *)
(* of deadline - now.                                                       *)

C13_FutureDeadlineIsPositive ==
    ret.done =>
        LET d == call.deadline_str
        IN  IF d.format = "ok" /\ d.hours > call.now
            THEN ret.value > 0 /\ ret.value = (d.hours - call.now) \div 24
            ELSE ret.value = 0

(* C13. (amended) calculate_days_remaining returns 0 for an unparsable      *)
(* input and for a deadline at or before the current time; for a deadline   *)
(* in the future it returns the whole-day floor of deadline - now, which    *)
(* is 0 while less than 24 hours remain and positive from 24 hours on       *)
(* (3 for 3 days and 4 hours).                                              *)

C13_WholeDayFloor ==
    ret.done =>
        LET d == call.deadline_str
        IN  IF d.format = "ok" /\ d.hours > call.now
            THEN /\ ret.value * 24 <= d.hours - call.now
                 /\ d.hours - call.now < (ret.value + 1) * 24
                 /\ (ret.value > 0 <=> d.hours - call.now >= 24)
            ELSE ret.value = 0

\* The deadline is 3 days and 4 hours ahead and 3 was returned.
C13_Witness ==
    /\ ret = Returns(3)
    /\ call.deadline_str.format = "ok"
    /\ call.deadline_str.hours - call.now = 3 * 24 + 4

---------------------------------------------------------------------------
(* C14. The status of a past record is Closed, Cancelled or Awarded when    *)
(* the entry's status code, as a string, is "1", "2" or "3" (the number     *)
(* or the text), and Unknown for every other value, a missing or empty      *)
(* code included; every entry gets a status.                                *)

C14_StatusFromCode ==
    ret.done =>
        LET c == call.proj_data.ProjectSubStatusID
            is(n, t) == (c.type = "int" /\ c.n = n) \/ (c.type = "str" /\ c.text = t)
        IN  /\ ret.value.Status \in {"Closed", "Cancelled", "Awarded", "Unknown"}
            /\ ret.value.Status = "Closed" <=> is(1, "1")
            /\ ret.value.Status = "Cancelled" <=> is(2, "2")
            /\ ret.value.Status = "Awarded" <=> is(3, "3")

\* The number 3 gave Awarded.
C14_Witness ==
    /\ ret.done
    /\ call.fn = "past_record"
    /\ call.proj_data.ProjectSubStatusID = Code("int", 3, "")
    /\ ret.value.Status = "Awarded"

---------------------------------------------------------------------------
(* C15. When _save_progress has returned, each artifact holds exactly the   *)
(* list it was given, whatever the files held before; called a second time  *)
(* with the same lists it leaves both artifacts as the first call left      *)
(* them.                                                                    *)

C15_CheckpointIdempotent ==
    (call.fn = "_save_progress" /\ pc = "loop_sleep") =>
        /\ openFile = File("complete", open_opps, "run")
        /\ pastFile = File("complete", past_opps, "run")
        /\ ret.done => <<openFile, pastFile>> = ret.value

\* The second call has returned, over files an earlier run had left, with two
\* organizations in the lists.
C15_Witness ==
    /\ call = [fn |-> "_save_progress", n |-> 2, old |-> TRUE]
    /\ pc = "loop_sleep"
    /\ ret.done
    /\ Len(open_opps) = 2
    /\ open_opps[1].opportunities # <<>>

---------------------------------------------------------------------------
(* C16. The list fetch_agencies returns is, for the letters in the order of *)
(* TARGET_LETTERS, the organizations of that letter in the order the        *)
(* listing holds them (page after page, entry after entry), cut to the      *)
(* quota.                                                                   *)

RECURSIVE C16_Flat(_)
C16_Flat(listing) ==
    IF listing = <<>> THEN <<>> ELSE Head(listing) \o C16_Flat(Tail(listing))

C16_OfLetter(org, c) ==
    /\ org.isRecord
    /\ org.OrganizationName # <<>>
    /\ org.Domain # ""
    /\ Upper(org.OrganizationName[1]) = c

C16_Bucket(listing, c) ==
    LET found == SelectSeq(C16_Flat(listing), LAMBDA org : C16_OfLetter(org, c))
        n     == IF Len(found) < AGENCIES_PER_LETTER THEN Len(found) ELSE AGENCIES_PER_LETTER
    IN  [i \in 1..n |-> [agency_name |-> found[i].OrganizationName,
                         agency_url  |-> <<"https://", found[i].Domain>>]]

RECURSIVE C16_Expected(_, _)
C16_Expected(listing, letters) ==
    IF letters = <<>> THEN <<>>
    ELSE C16_Bucket(listing, Head(letters)) \o C16_Expected(listing, Tail(letters))

C16_OutputOrder ==
    (call.fn = "fetch_agencies" /\ pc = "save_agencies")
        => agencies = C16_Expected(call.listing, TARGET_LETTERS)

\* Letters G, D and quota 2: "ga", found on page 2, comes first; "dx" and "Da"
\* of page 1 follow in the order of the page; the "Da" of page 2 is left out.
C16_Witness ==
    /\ pc = "save_agencies"
    /\ TARGET_LETTERS = <<"G", "D">>
    /\ AGENCIES_PER_LETTER = 2
    /\ call = [fn |-> "fetch_agencies",
               listing |-> << << Org(<<"d", "x">>, "dx"), Org(<<"D", "a">>, "da") >>,
                              << Org(<<"D", "a">>, "da"), Org(<<"g", "a">>, "ga") >> >>]
    /\ agencies = << Agency(<<"g", "a">>, "ga"), Agency(<<"d", "x">>, "dx"),
                     Agency(<<"D", "a">>, "da") >>

---------------------------------------------------------------------------
(* C17. The page cursor of discovery starts at 1 and never decreases; every *)
(* request is for the page under the cursor, and the cursor moves on by one *)
(* after a page is done, so no page is requested again once discovery is    *)
(* past it; the buckets change only in the attempt that ends a page's       *)
(* retry loop, so a page's entries are bucketed at most once.               *)

C17_NeverRevisitsAPage ==
    [][ /\ pc = "fetch_agencies" => page_num' = 1
        /\ pc \in DiscPcs \ {"disc_combine"} => page_num' >= page_num
        /\ pc = "disc_attempt" => tab'.url = ListingUrl(page_num)
        /\ pc \in DiscPcs \ {"disc_attempt"} => tab' = tab
        /\ pc = "disc_next" => page_num' = page_num + 1
        /\ (pc \in DiscPcs \ {"disc_combine"} /\ agencies_by_letter' # agencies_by_letter)
              => pc = "disc_attempt" /\ pc' = "disc_next" /\ page_num' = page_num
      ]_vars

\* Page 2 was bucketed at its third attempt, after two failed ones.
C17_Witness ==
    /\ pc = "disc_next"
    /\ page_num = 2
    /\ attempt = 2
    /\ fetched = "entries"
    /\ ~reached_end
    /\ \E c \in DOMAIN agencies_by_letter : agencies_by_letter[c] # <<>>

---------------------------------------------------------------------------
(* C18. In main(): without a phase flag the scrape, parse and upload phases *)
(* run in that order; with exactly one of the three flags only the phase it *)
(* names runs; and when scraping is selected and the email or the password  *)
(* is missing, main() exits and no phase ever runs.                         *)

C18_Flags == <<call.scrape_only, call.parse_only, call.upload_only>>

C18_PhaseSelection ==
    call.fn = "main" =>
        /\ locals.at = "returned" =>
              /\ C18_Flags = <<FALSE, FALSE, FALSE>>
                    => locals.ran = <<"scrape", "parse", "upload">>
              /\ C18_Flags = <<TRUE, FALSE, FALSE>> => locals.ran = <<"scrape">>
              /\ C18_Flags = <<FALSE, TRUE, FALSE>> => locals.ran = <<"parse">>
              /\ C18_Flags = <<FALSE, FALSE, TRUE>> => locals.ran = <<"upload">>
        /\ (~call.parse_only /\ ~call.upload_only /\ ~(call.email /\ call.password))
              => /\ locals.ran = <<>>
                 /\ locals.at \in {"phases", "credentials", "exited"}
        /\ locals.at = "exited" => ret = Returns("exit 1")

\* The full pipeline has run, with the scrape phase reporting failure.
C18_Witness ==
    /\ call.fn = "main"
    /\ C18_Flags = <<FALSE, FALSE, FALSE>>
    /\ locals.at = "returned"
    /\ locals.ran = <<"scrape", "parse", "upload">>
    /\ ret = Returns("COMPLETED WITH ERRORS")

---------------------------------------------------------------------------
(* C19. insert_opportunities with skip_duplicates: the collection holds at  *)
(* most one document per _document_id, a stored document is never changed   *)
(* or removed by a later insert, every call returns counts that add up to   *)
(* the number of documents passed, and a call with the same list as the     *)
(* call before it inserts nothing.                                          *)

C19_OnePerId ==
    \A d1, d2 \in collection : d1._document_id = d2._document_id => d1 = d2

C19_CountsAddUp ==
    (call.fn = "insert_opportunities" /\ ret.done)
        => ret.value.inserted + ret.value.skipped + ret.value.failed
              = Len(call.opportunities)

C19_SameListAgain ==
    /\ call.fn = "insert_opportunities"
    /\ ret.done
    /\ locals.prev.same

---------------------------------------------------------------------------
(* C20. Discovery tests the buckets before the first attempt at every page, *)
(* a listing page is requested only while some target-letter bucket is      *)
(* below quota, and once every bucket is at quota discovery requests        *)
(* nothing more: when page 1 fills them all, page 2 is never requested.     *)

C20_NoRequestWhenFull ==
    [][ /\ pc = "disc_attempt" => ~all_full(agencies_by_letter)
        /\ (pc # "disc_attempt" /\ pc' = "disc_attempt" /\ attempt' = 0)
              => pc = "disc_loop" /\ ~reached_end /\ ~all_full(agencies_by_letter)
        /\ (pc \in DiscPcs /\ all_full(agencies_by_letter)) => tab' = tab
      ]_vars

\* Page 1 filled both buckets: discovery left the loop with the cursor on
\* page 2 and the tab still on page 1.
C20_Witness ==
    /\ pc = "disc_combine"
    /\ AGENCIES_PER_LETTER = 1
    /\ TARGET_LETTERS = <<"G", "D">>
    /\ page_num = 2
    /\ ~reached_end
    /\ all_full(agencies_by_letter)
    /\ tab.url = ListingUrl(1)

---------------------------------------------------------------------------
(* C21. For each feed of each organization the harvester makes at least one *)
(* and at most MAX_RETRIES requests: the retry loop is entered with the     *)
(* count at 0, every failed attempt adds one, no request is made with the   *)
(* count at MAX_RETRIES, and an attempt that reads the opportunity          *)
(* collection, even an empty one, goes straight to the return of the set.   *)

C21_AttemptsBoundedAndEndAtFirstRead ==
    [][ \A feed \in {"open", "past"} :
           LET try    == feed \o "_attempt"
               except == feed \o "_except"
               return == feed \o "_return"
           IN  /\ pc = "scrape_" \o feed => pc' = try /\ attempt' = 0
               /\ pc = try => /\ attempt < MAX_RETRIES
                              /\ tab'.url = FeedUrl(feed, agencies[idx])
                              /\ fetched' # "nothing"
                              /\ pc' \in {try, except, return}
               /\ (pc = try /\ pc' = try) => attempt' = attempt + 1 /\ result' = result
               /\ (pc = try /\ pc' = return /\ attempt' # attempt)
                     => attempt' = MAX_RETRIES /\ result' = result
               /\ (pc = try /\ pc' = except) => attempt' = attempt /\ result' = result
               /\ pc = except => attempt' = attempt + 1 /\ pc' \in {try, return}
               /\ pc = return => pc' \notin {try, except} /\ attempt <= MAX_RETRIES
      ]_vars

\* The open feed of an organization without open opportunities was read at
\* the second attempt: the set is empty and the retries are over.
C21_Witness ==
    /\ pc = "open_return"
    /\ attempt = 1
    /\ fetched = "mapping"
    /\ agencies[idx].agency_name = <<"d", "x">>
    /\ result.opportunities = <<>>

---------------------------------------------------------------------------
(* C22. Two consecutive attempts on one feed are separated by a delay: an   *)
(* attempt that is not the first of its feed is entered from a delay step.  *)
(* The harvesters have no such step: "continue" (lines 381, 449) and the    *)
(* except blocks (414-415, 486-487) lead straight to the next request; the  *)
(* only sleep of the harvest is the one between organizations (line 515).   *)

C22_DelayBetweenFeedAttempts ==
    [][ \A feed \in {"open", "past"} :
           (pc' = feed \o "_attempt" /\ attempt' > 0) => pc = feed \o "_delay"
      ]_vars

---------------------------------------------------------------------------
(* C23. Harvesting is sequential and in discovery order.  While organization *)
(* idx is being harvested the accumulators hold the sets of the             *)
(* organizations before it (and its open set once the past feed is being    *)
(* requested), and from the second organization on both artifacts hold the  *)
(* complete checkpoint of the organizations before it.  The positions       *)
(* follow each other as open feed, past feed, checkpoint, next              *)
(* organization; the tab, the one handle on the session, is moved only by   *)
(* an attempt and only to the feed of organization idx.                     *)

C23_HarvestPcs == {"scrape_loop"} \cup OpenPcs \cup PastPcs \cup CkptPcs \cup {"loop_sleep"}

C23_Position ==
    /\ pc \in OpenPcs => Len(open_opps) = idx - 1 /\ Len(past_opps) = idx - 1
    /\ pc \in PastPcs => Len(open_opps) = idx /\ Len(past_opps) = idx - 1
    /\ pc \in CkptPcs \cup {"loop_sleep"} => Len(open_opps) = idx /\ Len(past_opps) = idx
    /\ pc \in OpenPcs \cup PastPcs \cup CkptPcs \cup {"loop_sleep"} =>
          /\ idx \in 1..Len(agencies)
          /\ Names(open_opps) = Names(SubSeq(agencies, 1, Len(open_opps)))
          /\ Names(past_opps) = Names(SubSeq(agencies, 1, Len(past_opps)))
    /\ (pc \in OpenPcs \cup PastPcs /\ idx > 1) =>
          /\ openFile = File("complete", SubSeq(open_opps, 1, idx - 1), "run")
          /\ pastFile = File("complete", past_opps, "run")
    /\ pc \in {"open_except", "open_return"} => tab.url = FeedUrl("open", agencies[idx])
    /\ pc \in {"past_except", "past_return"} \cup CkptPcs \cup {"loop_sleep"}
          => tab.url = FeedUrl("past", agencies[idx])

C23_Order ==
    /\ pc \in OpenPcs => pc' \in OpenPcs \cup {"scrape_past"}
    /\ pc \in PastPcs => pc' \in PastPcs \cup {"save_progress"}
    /\ pc \in CkptPcs => pc' \in CkptPcs \cup {"loop_sleep", "finally"}
    /\ pc = "loop_sleep" => pc' = "scrape_loop" /\ idx' = idx + 1
    /\ pc = "scrape_loop" => pc' \in {"scrape_open", "finally"}
    /\ (pc \in C23_HarvestPcs \ {"loop_sleep"} /\ pc' # "finally") => idx' = idx
    /\ (pc \in C23_HarvestPcs /\ tab' # tab) =>
          \/ pc = "open_attempt" /\ tab'.url = FeedUrl("open", agencies[idx])
          \/ pc = "past_attempt" /\ tab'.url = FeedUrl("past", agencies[idx])

C23_StrictlySequential == []C23_Position /\ [][C23_Order]_vars

\* The second organization's past feed is being requested: its open set is
\* in the accumulator and the artifacts hold the first organization only.
C23_Witness ==
    /\ pc = "past_attempt"
    /\ idx = 2
    /\ Len(open_opps) = 2
    /\ Len(past_opps) = 1
    /\ Len(openFile.data) = 1
    /\ openFile.data[1].agency_name = agencies[1].agency_name
    /\ tab.url = FeedUrl("open", agencies[2])

---------------------------------------------------------------------------
(* C24. When the k-th checkpoint of a run has completed, the open artifact  *)
(* and the past artifact each hold exactly k sets, the i-th being the set   *)
(* of the i-th discovered organization; every dump writes the accumulated   *)
(* list, and the accumulated lists only grow at their end during the        *)
(* harvest, so the sets of earlier checkpoints are written again unchanged  *)
(* and in the same place.                                                   *)

C24_AfterCheckpoint ==
    pc = "loop_sleep" =>
        /\ openFile = File("complete", open_opps, "run")
        /\ pastFile = File("complete", past_opps, "run")
        /\ Len(openFile.data) = idx
        /\ Len(pastFile.data) = idx
        /\ \A i \in 1..idx :
              /\ openFile.data[i].agency_name = agencies[i].agency_name
              /\ pastFile.data[i].agency_name = agencies[i].agency_name

C24_Grows ==
    /\ (pc \in C23_HarvestPcs /\ pc' \in C23_HarvestPcs) =>
          /\ IsPrefix(open_opps, open_opps')
          /\ IsPrefix(past_opps, past_opps')
    /\ (pc = "dump_open" /\ pc' = "open_past_file") => openFile'.data = open_opps
    /\ (pc = "dump_past" /\ pc' = "loop_sleep") => pastFile'.data = past_opps

C24_CheckpointHoldsFirstK == []C24_AfterCheckpoint /\ [][C24_Grows]_vars

\* The second checkpoint has completed.
C24_Witness ==
    /\ pc = "loop_sleep"
    /\ idx = 2
    /\ Len(openFile.data) = 2
    /\ Len(pastFile.data) = 2
    /\ pastFile.data[2].agency_name = agencies[2].agency_name
    /\ pastFile.data[1].agency_name # pastFile.data[2].agency_name

---------------------------------------------------------------------------
(* C25. The discovered-organizations artifact is written by save_agencies   *)
(* alone, in one pass entered from the return of discovery; from then to    *)
(* the end of the harvest it holds the discovered list and no step touches  *)
(* it.                                                                      *)

C25_Written ==
    /\ pc \in {"check_agencies", "scrape_all"} \cup C23_HarvestPcs
          => agenciesFile = File("complete", agencies, "run")
    /\ (pc \in EndPcs /\ login_ret = "true" /\ pending.kind = "return")
          => agenciesFile = File("complete", agencies, "run")
    /\ (pc \in EndPcs /\ login_ret = "true" /\ pending.kind = "raise")
          => pending.exc.origin \in {"save_agencies", "_save_progress"}

C25_OnePass ==
    /\ pc' = "save_agencies" => pc = "disc_combine" /\ tab' = tab
    /\ pc = "save_agencies" => pc' \in {"save_agencies_dump", "finally"}
    /\ pc = "save_agencies_dump" => pc' \in {"check_agencies", "finally"}
    /\ pc \in {"save_agencies", "save_agencies_dump", "check_agencies"} => tab' = tab
    /\ agenciesFile' # agenciesFile =>
          \/ pc = "save_agencies" /\ agenciesFile' = File("partial", <<>>, "run")
          \/ pc = "save_agencies_dump" /\ agenciesFile' = File("complete", agencies, "run")

---------------------------------------------------------------------------
(* C26. A required element that is not found ends login(): when the query   *)
(* for the email field, for the continue button, or for the last candidate  *)
(* selector of the password field finds nothing, login() returns False at   *)
(* once with the page as it is; once False is returned control never comes  *)
(* back to a step of login(), and run() goes to its finally block.          *)

C26_Steps ==
    <<"login", "login_query_email", "login_type_email", "login_query_continue",
      "login_click_continue", "login_query_password", "login_type_password",
      "login_query_submit", "login_click_submit">>

C26_Rank(p) == CHOOSE i \in 1..Len(C26_Steps) : C26_Steps[i] = p

C26_Failed ==
    \/ pc' = "login_return" /\ login_ret' = "false" /\ tab' = tab
    \/ pc' = "login_except" /\ tab' = tab             \* the query itself raised

C26_NotFoundReturnsFalse ==
    /\ (pc = "login_query_email" /\ "input#input-email" \notin call.page) => C26_Failed
    /\ (pc = "login_query_continue" /\ "continue button" \notin call.page) => C26_Failed
    /\ (pc = "login_query_password" /\ Range(password_selectors) \cap call.page = {}) =>
          \/ pc' = pc /\ selector' = selector + 1 /\ tab' = tab
          \/ selector = Len(password_selectors) /\ C26_Failed
          \/ pc' = "login_except" /\ tab' = tab
    /\ (pc = "login_return" /\ login_ret = "false")
          => pc' = "finally" /\ tab' = tab /\ login_ret' = "false"
    /\ pc' \in LoginPcs \ {"login"} =>
          /\ pc \in LoginPcs
          /\ \/ C26_Rank(pc') = C26_Rank(pc) + 1
             \/ pc = "login_query_password" /\ pc' = pc /\ selector' = selector + 1

C26_FailedIsAbsorbing ==
    /\ [](login_ret = "false" => pc \notin LoginPcs \cup {"login_except"})
    /\ [][C26_NotFoundReturnsFalse]_vars

\* None of the three selectors found the password field: login() returned
\* False with the email submitted and nothing typed after it.
C26_Witness ==
    /\ call.page = {"input#input-email", "continue button", "submit button"}
    /\ pc = "login_return"
    /\ login_ret = "false"
    /\ selector = Len(password_selectors)
    /\ tab.form = "email_submitted"

---------------------------------------------------------------------------
(* C27. login() acts on the page in the order navigate, type email, click   *)
(* continue, type password, click submit: the form moves one stage at a     *)
(* time, each stage is entered by its own step and never twice; the         *)
(* password selectors are queried in order, one more only after a miss,     *)
(* and a match leaves the selector loop for good.                           *)

C27_Stage(form) ==
    CASE form = "none" -> 0
      [] form = "login_page" -> 1
      [] form = "email_typed" -> 2
      [] form = "email_submitted" -> 3
      [] form = "password_typed" -> 4
      [] form = "password_submitted" -> 5

C27_StepOf(form) ==
    CASE form = "login_page" -> "login"
      [] form = "email_typed" -> "login_type_email"
      [] form = "email_submitted" -> "login_click_continue"
      [] form = "password_typed" -> "login_type_password"
      [] form = "password_submitted" -> "login_click_submit"

C27_Order ==
    /\ (pc \in LoginPcs /\ tab'.form # tab.form) =>
          /\ C27_Stage(tab'.form) = C27_Stage(tab.form) + 1
          /\ pc = C27_StepOf(tab'.form)
    /\ pc' = "login_query_password" =>
          \/ pc = "login_click_continue" /\ selector' = 1
          \/ pc = "login_query_password" /\ selector' = selector + 1
    /\ (pc = "login_query_password" /\ pc' = "login_type_password") =>
          /\ selector' = selector
          /\ password_selectors[selector] \in call.page
          /\ \A j \in 1..(selector - 1) : password_selectors[j] \notin call.page
    /\ (pc = "login_query_password" /\ password_selectors[selector] \in call.page)
          => pc' \in {"login_type_password", "login_except"}
    /\ pc = "login_type_password" => selector' = selector

C27_FixedOrderFirstMatch ==
    /\ [](pc = "login_query_password" => selector \in 1..Len(password_selectors))
    /\ [][C27_Order]_vars

\* The second selector found the password field and the form was submitted.
C27_Witness ==
    /\ call.page = PageElements \ {"input#password"}
    /\ pc = "login_return"
    /\ login_ret = "true"
    /\ selector = 2
    /\ tab.form = "password_submitted"

---------------------------------------------------------------------------
(* C28. For both feeds, the values v1..vn sent as a keyed mapping give the  *)
(* same opportunity records as the same values sent as a plain list; the    *)
(* records are those of the values that are records, in order, and a value  *)
(* that is not a record is left out without touching the others.            *)

C28_Records(feed, values, now) ==
    LET records == SelectSeq(values, LAMBDA v : v.isRecord)
    IN  [i \in 1..Len(records) |->
            IF feed = "open" THEN OpenOpp(records[i], now) ELSE PastOpp(records[i])]

C28_KeyedEqualsList ==
    (call.fn = "opportunities" /\ ret.done) =>
        /\ ret.value.keyed = ret.value.list
        /\ ret.value.list = C28_Records(call.feed, call.values, call.now)

\* Three values, the one in the middle not a record: two records from
\* either shape.
C28_Witness ==
    /\ call.fn = "opportunities"
    /\ ret.done
    /\ Len(call.values) = 3
    /\ call.values[2] = NotAProject
    /\ call.values[1] # NotAProject
    /\ call.values[3] # NotAProject
    /\ Len(ret.value.keyed) = 2
    /\ ret.value.keyed[2].Refference = call.values[3].ReferenceID

---------------------------------------------------------------------------
(* C29. An entry of a parsed listing page that has no name or no domain, or *)
(* that is not a record, is skipped alone: when a page is done at its first *)
(* attempt, each bucket holds, up to the quota, the well-formed entries of  *)
(* its letter from all the pages so far, those before and those after a     *)
(* malformed entry alike.                                                   *)

C29_MalformedEntrySkippedAlone ==
    (call.fn = "fetch_agencies" /\ pc = "disc_next" /\ fetched = "entries") =>
        /\ attempt = 0
        /\ page_num <= Len(call.listing)
        /\ \A c \in Range(TARGET_LETTERS) :
              agencies_by_letter[c] = C16_Bucket(SubSeq(call.listing, 1, page_num), c)

\* A page with an entry that is not a record first and one without a domain
\* in the middle: the two well-formed entries around them are in the buckets.
C29_Witness ==
    /\ pc = "disc_next"
    /\ page_num = 1
    /\ attempt = 0
    /\ TARGET_LETTERS = <<"G", "D">>
    /\ call.fn = "fetch_agencies"
    /\ Len(call.listing) >= 1
    /\ call.listing[1] = << NotARecord, Org(<<"g", "a">>, "ga"), Org(<<"G", "b">>, ""),
                            Org(<<"D", "a">>, "da") >>
    /\ agencies_by_letter["G"] = << Agency(<<"g", "a">>, "ga") >>
    /\ agencies_by_letter["D"] = << Agency(<<"D", "a">>, "da") >>

---------------------------------------------------------------------------
(* C30. The days-remaining value of an open record comes from the close     *)
(* date and the clock alone: two open-feed payloads whose entries agree on  *)
(* reference id, project name and close date give identical records,        *)
(* whatever days-left value or status the remote sent with them, and an     *)
(* entry with an empty close date gets 0.                                   *)

C30_DaysFromCloseDateOnly ==
    (call.fn = "open_records" /\ ret.done) =>
        /\ ret.value.a = ret.value.b
        /\ Len(ret.value.a) = 1
        /\ call.close = NoDate => ret.value.a[1].DaysLeft = 0
        /\ call.close.format = "ok" =>
              /\ ret.value.a[1].DaysLeft * 24 <= call.close.hours - call.now
                    \/ ret.value.a[1].DaysLeft = 0
              /\ call.close.hours - call.now < (ret.value.a[1].DaysLeft + 1) * 24

\* The remote said 9 days left in one payload and 0 in the other; the close
\* date is 76 hours away and both records say 3.
C30_Witness ==
    /\ call.fn = "open_records"
    /\ ret.done
    /\ call.close = Date("ok", 176)
    /\ call.now = 100
    /\ call.a.daysLeft = 9
    /\ call.b.daysLeft = 0
    /\ ret.value.a[1].DaysLeft = 3
    /\ ret.value.b[1].DaysLeft = 3

---------------------------------------------------------------------------
(* C31. Buckets are independent.  From any buckets discovery can hold,      *)
(* bucketing an entry changes at most the bucket of its upper-cased first   *)
(* letter, by appending the entry, and does so whenever that bucket is      *)
(* below quota, whatever the other buckets hold; over a whole page each     *)
(* bucket becomes its old content followed by the page's entries of its     *)
(* letter, cut to the quota.                                                *)

C31_PerEntry ==
    \A org \in Entries :
        LET after == ProcessOrg(agencies_by_letter, org)
        IN  \A c \in Range(TARGET_LETTERS) :
               /\ after[c] # agencies_by_letter[c] => C16_OfLetter(org, c)
               /\ (C16_OfLetter(org, c) /\ Len(agencies_by_letter[c]) < AGENCIES_PER_LETTER)
                     => after[c] = Append(agencies_by_letter[c],
                                          Agency(org.OrganizationName, org.Domain))
               /\ ~C16_OfLetter(org, c) => after[c] = agencies_by_letter[c]

C31_PerPage ==
    (call.fn = "fetch_agencies" /\ pc = "disc_attempt" /\ fetched' = "entries") =>
        \A c \in Range(TARGET_LETTERS) :
           LET found == SelectSeq(call.listing[page_num], LAMBDA org : C16_OfLetter(org, c))
               mine  == [i \in 1..Len(found) |->
                            Agency(found[i].OrganizationName, found[i].Domain)]
           IN  agencies_by_letter'[c]
                  = Take(agencies_by_letter[c] \o mine, AGENCIES_PER_LETTER)

C31_BucketsIndependent == []C31_PerEntry /\ [][C31_PerPage]_vars

\* Quota 2: page 1 filled the D bucket, and page 2, which starts with one
\* more D entry, still put its G entry into the G bucket.
C31_Witness ==
    /\ pc = "disc_next"
    /\ page_num = 2
    /\ AGENCIES_PER_LETTER = 2
    /\ TARGET_LETTERS = <<"G", "D">>
    /\ call.fn = "fetch_agencies"
    /\ call.listing = << << Org(<<"d", "x">>, "dx"), Org(<<"D", "a">>, "da") >>,
                         << Org(<<"D", "a">>, "da"), Org(<<"g", "a">>, "ga") >> >>
    /\ agencies_by_letter["D"] = << Agency(<<"d", "x">>, "dx"), Agency(<<"D", "a">>, "da") >>
    /\ agencies_by_letter["G"] = << Agency(<<"g", "a">>, "ga") >>

---------------------------------------------------------------------------
(* C32. Discovery terminates for every behaviour of the remote, also when   *)
(* from some page on every request raises: fetch_agencies, once begun,      *)
(* leaves its loop, by returning or by raising.                             *)

C32_DiscoveryEndsUnderOutage ==
    (pc = "fetch_agencies") ~> (pc \notin DiscPcs \cup {"fetch_agencies"})

---------------------------------------------------------------------------
(* C33. Teardown closes the browser whenever one was created: once          *)
(* close_browser is entered with a browser, the browser's close is the next *)
(* thing awaited, also when closing the tab raised; and nothing in teardown *)
(* changes what run() is about to return or raise.                          *)

C33_InvokesBrowserClose ==
    (pc = "finally" /\ browser # "none") => pc' = "close_browser"

C33_KeepsRunsResult ==
    (pc \in {"finally"} \cup ClosePcs) => pending' = pending

C33_TeardownClosesBrowser ==
    [][C33_InvokesBrowserClose /\ C33_KeepsRunsResult]_vars

---------------------------------------------------------------------------
(* C34. run_scraper returns true exactly when run() returned without        *)
(* raising and discovery produced at least one organization: also when no   *)
(* feed gave an opportunity, and never when discovery produced none.        *)

C34_TrueIffReturnedWithOrganization ==
    pc = "reported" =>
        /\ caller_ret \in {"true", "false"}
        /\ caller_ret = "true" <=> (outcome = "returned" /\ agencies # <<>>)
        /\ (outcome = "returned" /\ agencies # <<>>) =>
              Len(open_opps) = Len(agencies) /\ Len(past_opps) = Len(agencies)

\* run_scraper has returned true for a run in which requests raised and no
\* organization has any opportunity.
C34_Witness ==
    /\ pc = "reported"
    /\ caller_ret = "true"
    /\ faults = MaxFaults
    /\ agencies # <<>>
    /\ \A i \in 1..Len(open_opps) : open_opps[i].opportunities = <<>>
    /\ \A i \in 1..Len(past_opps) : past_opps[i].opportunities = <<>>

---------------------------------------------------------------------------
(* C35. A failed scrape phase does not stop main(): every later phase that  *)
(* was selected still runs (run_parser and run_upload take nothing from     *)
(* run_scraper, they read what is on disk), main() reaches its summary, and *)
(* the status it reports is COMPLETED WITH ERRORS.                          *)

C35_FailedScrapeDoesNotStop ==
    (call.fn = "main" /\ "scrape" \in locals.failed) =>
        /\ locals.at \in {"parse", "upload", "summary", "returned"}
        /\ locals.at \in {"upload", "summary", "returned"} =>
              (locals.do_parse <=> "parse" \in Range(locals.ran))
        /\ locals.at \in {"summary", "returned"} =>
              (locals.do_upload <=> "upload" \in Range(locals.ran))
        /\ locals.at = "returned" =>
              /\ ret = Returns("COMPLETED WITH ERRORS")
              /\ ~(call.scrape_only \/ call.parse_only \/ call.upload_only)
                    => locals.ran = <<"scrape", "parse", "upload">>

\* main() without flags has returned: the scrape failed, parse and upload ran
\* and succeeded.
C35_Witness ==
    /\ call.fn = "main"
    /\ ~(call.scrape_only \/ call.parse_only \/ call.upload_only)
    /\ locals.at = "returned"
    /\ locals.failed = {"scrape"}
    /\ locals.ran = <<"scrape", "parse", "upload">>
    /\ ret = Returns("COMPLETED WITH ERRORS")

---------------------------------------------------------------------------
(* C36. A run in which discovery returns no organization writes the         *)
(* discovered-organizations artifact as an empty array, makes no feed       *)
(* request and no checkpoint, and leaves both checkpoint artifacts as they  *)
(* were before the run.                                                     *)

\* Discovery has returned, and it returned no organization.
C36_EmptyDiscovery ==
    /\ login_ret = "true"
    /\ agencies = <<>>
    /\ pc \in {"save_agencies", "save_agencies_dump", "check_agencies", "scrape_all",
               "finally"} \cup C23_HarvestPcs \cup ClosePcs \cup EndPcs

\* No feed was requested, nothing was harvested, and the checkpoint files are
\* those of the output directory the run started with.
C36_NoHarvest ==
    /\ pc \notin {"scrape_all"} \cup C23_HarvestPcs
    /\ tab.url.kind \notin {"open", "past"}
    /\ open_opps = <<>> /\ past_opps = <<>>
    /\ \E disk \in {FreshDisk, OldDisk} : openFile = disk.open /\ pastFile = disk.past

============================================================================
